---- MODULE Spec2Model ----
(***************************************************************************)
(* Verification model of parts of Riegeli: RecordReader                    *)
(* (riegeli/records/record_reader.cc), Writer / PushableWriter             *)
(* (riegeli/bytes/writer.cc, riegeli/bytes/pushable_writer.{h,cc}) and the *)
(* state machine of TransposeDecoder (transpose_decoder.cc).               *)
(***************************************************************************)
EXTENDS Integers, Sequences, FiniteSets, TLC

VARIABLES file, recovery, rr, pw, td, lw, dec, od, sc, bk, dw, ow, vl, dr, nc, hs, fw, io

rrVars == <<file, recovery, rr>>
vars == <<file, recovery, rr, pw, td, lw, dec, od, sc, bk, dw, ow, vl, dr, nc, hs, fw, io>>

(***************************************************************************)
(* Bounds of the record file model.                                        *)
(***************************************************************************)
\* Number of chunks after the file signature chunk.
NumChunks == 2
\* Largest number of records in a chunk.
MaxRecs == 2
\* Largest number of skipped regions a rejecting recovery callback accepts
\* before it rejects one.
MaxAccept == 1

\* Every chunk occupies ChunkSz positions, so that chunk_begin + record_index
\* of the last record stays below the next chunk boundary.
ChunkSz == MaxRecs + 1
FileSize == (NumChunks + 1) * ChunkSz
ChunkBegins == {k * ChunkSz : k \in 0..NumChunks}
Boundaries == ChunkBegins \cup {FileSize}

\* The recovery callback accepts every skipped region.
Always == 0 - 1
AccPolicies == (0..MaxAccept) \cup {Always}

NoRec == <<>>
\* The bytes of the record stored at index i of the chunk beginning at c.
RecordAt(c, i) == <<c, i>>

\* A chunk is readable ("ok", with n records), has a corrupted header
\* ("corrupt", the chunk reader fails on it) or has contents the chunk decoder
\* rejects ("undecodable").
ChunkDescs ==
  [kind : {"ok"}, n : 0..MaxRecs] \cup [kind : {"corrupt", "undecodable"}, n : {0}]

Files ==
  {f \in [ChunkBegins -> ChunkDescs] : f[0] = [kind |-> "ok", n |-> 0]}

Min(S) == CHOOSE x \in S : \A y \in S : x <= y
Max(S) == CHOOSE x \in S : \A y \in S : x >= y

\* F applied to the value of v: v is evaluated once, however often F uses
\* it.
Eval(v, F(_)) == CHOOSE r \in {F(x) : x \in {v}} : TRUE

(***************************************************************************)
(* Object: healthy() / Fail() / MarkNotFailed().  The first failure status *)
(* is retained.                                                            *)
(***************************************************************************)
Fail(s, st) ==
  [s EXCEPT !.healthy = FALSE,
            !.status = IF s.healthy THEN st ELSE s.status,
            !.ret = FALSE]

MarkNotFailed(s) == [s EXCEPT !.healthy = TRUE, !.status = "OK"]

(***************************************************************************)
(* ChunkDecoder.                                                           *)
(***************************************************************************)
NoChunk == 0 - 1

DecClear(s) ==
  [s EXCEPT !.dec_chunk = NoChunk, !.dec_num = 0, !.dec_index = 0,
            !.dec_healthy = TRUE]

\* ChunkDecoder::Decode of the chunk beginning at c.
DecDecode(s, c) ==
  IF file[c].kind = "undecodable"
    THEN [DecClear(s) EXCEPT !.dec_healthy = FALSE, !.ret = FALSE]
    ELSE [s EXCEPT !.dec_chunk = c, !.dec_num = file[c].n, !.dec_index = 0,
                   !.dec_healthy = TRUE, !.ret = TRUE]

\* ChunkDecoder::ReadRecord.
DecReadRecord(s) ==
  IF s.dec_index >= s.dec_num
    THEN [s EXCEPT !.ret = FALSE]
    ELSE [s EXCEPT !.rec = RecordAt(s.dec_chunk, s.dec_index),
                   !.dec_index = @ + 1, !.ret = TRUE]

\* ChunkDecoder::SetIndex clamps the index to num_records().
DecSetIndex(s, i) ==
  [s EXCEPT !.dec_index = IF i < s.dec_num THEN i ELSE s.dec_num]

\* ChunkDecoder::Recover: only a record parsing failure is recoverable; a
\* chunk which failed to decode is not.
DecRecover(s) == [s EXCEPT !.ret = FALSE]

(***************************************************************************)
(* ChunkReader.                                                            *)
(***************************************************************************)
SrcReadChunk(s) ==
  IF ~s.src_healthy THEN [s EXCEPT !.ret = FALSE]
  ELSE IF s.src_pos >= FileSize THEN [s EXCEPT !.ret = FALSE]
  ELSE IF file[s.src_pos].kind = "corrupt"
    THEN [s EXCEPT !.src_healthy = FALSE, !.ret = FALSE]
  ELSE [s EXCEPT !.src_pos = @ + ChunkSz, !.ret = TRUE]

SrcPullChunkHeader(s) ==
  IF ~s.src_healthy THEN [s EXCEPT !.ret = FALSE]
  ELSE IF s.src_pos >= FileSize THEN [s EXCEPT !.ret = FALSE]
  ELSE IF file[s.src_pos].kind = "corrupt"
    THEN [s EXCEPT !.src_healthy = FALSE, !.ret = FALSE]
  ELSE [s EXCEPT !.ret = TRUE]

SrcCheckFileFormat(s) == SrcPullChunkHeader(s)

\* ChunkReader::Seek to a chunk boundary.
SrcSeek(s, p) ==
  IF ~s.src_healthy THEN [s EXCEPT !.ret = FALSE]
  ELSE [s EXCEPT !.src_pos = p, !.ret = TRUE]

\* ChunkReader::SeekToChunkBefore: positions at the last chunk boundary at or
\* before p, scanning chunk headers on the way; a corrupted header on the way
\* fails the chunk reader at that chunk.
SrcSeekToChunkBefore(s, p) ==
  LET t == Max({b \in Boundaries : b <= p})
      from == IF s.src_pos <= p THEN s.src_pos ELSE 0
      bad == {b \in ChunkBegins :
                from <= b /\ b < t /\ file[b].kind = "corrupt"}
  IN IF ~s.src_healthy THEN [s EXCEPT !.ret = FALSE]
     ELSE IF bad # {}
       THEN [s EXCEPT !.src_pos = Min(bad), !.src_healthy = FALSE,
                      !.ret = FALSE]
     ELSE [s EXCEPT !.src_pos = t, !.ret = TRUE]

\* ChunkReader::Recover: skips to the next chunk boundary with a valid header.
SrcRecover(s) ==
  IF s.src_healthy THEN [s EXCEPT !.ret = FALSE]
  ELSE LET good == {b \in Boundaries :
                      b > s.src_pos /\
                      (b = FileSize \/ file[b].kind # "corrupt")}
       IN [s EXCEPT !.src_healthy = TRUE, !.src_pos = Min(good), !.ret = TRUE]

(***************************************************************************)
(* RecordReaderBase.                                                       *)
(***************************************************************************)
\* A faulty Recover which marks the reader not failed before it checks that a
\* recovery is pending.
Recover_MarksNotFailedFirst(s) ==
  LET s1 == MarkNotFailed([s EXCEPT !.recoverable = "kNo"])
  IN IF s.recoverable = "kNo" THEN [s1 EXCEPT !.ret = FALSE]
     ELSE IF s.recoverable = "kRecoverChunkReader"
       THEN LET s2 == SrcRecover(s1)
            IN IF ~s2.ret THEN Fail(s2, "DATA_LOSS")
               ELSE [s2 EXCEPT !.ret = TRUE]
     ELSE [DecClear(s1) EXCEPT !.ret = TRUE]

\* A faulty Recover which does not mark the reader not failed.
Recover_StaysFailed(s) ==
  IF s.recoverable = "kNo" THEN [s EXCEPT !.ret = FALSE]
  ELSE
    LET s1 == [s EXCEPT !.recoverable = "kNo"]
    IN IF s.recoverable = "kRecoverChunkReader"
         THEN LET s2 == SrcRecover(s1)
              IN IF ~s2.ret THEN Fail(s2, "DATA_LOSS")
                 ELSE [s2 EXCEPT !.ret = TRUE]
         ELSE LET s2 == DecRecover(s1)
              IN [(IF ~s2.ret THEN DecClear(s2) ELSE s2) EXCEPT !.ret = TRUE]

\* RecordReaderBase::Recover.
Recover(s) ==
  IF s.recoverable = "kNo" THEN [s EXCEPT !.ret = FALSE]
  ELSE
    LET s1 == MarkNotFailed([s EXCEPT !.recoverable = "kNo"])
    IN IF s.recoverable = "kRecoverChunkReader"
         THEN LET s2 == SrcRecover(s1)
              IN IF ~s2.ret THEN Fail(s2, "DATA_LOSS")
                 ELSE [s2 EXCEPT !.ret = TRUE]
         ELSE LET s2 == DecRecover(s1)
              IN [(IF ~s2.ret THEN DecClear(s2) ELSE s2) EXCEPT !.ret = TRUE]

\* RecordReaderBase::TryRecovery: with a recovery callback installed, Recover
\* and let the callback decide whether to continue.
TryRecovery(s) ==
  IF ~recovery THEN [s EXCEPT !.ret = FALSE]
  ELSE
    LET s1 == Recover(s)
    IN IF ~s1.ret THEN s1
       ELSE IF s1.acc = Always
         THEN [s1 EXCEPT !.skipped = TRUE, !.ret = TRUE]
       ELSE IF s1.acc > 0
         THEN [s1 EXCEPT !.acc = @ - 1, !.skipped = TRUE, !.ret = TRUE]
       ELSE [s1 EXCEPT !.skipped = TRUE, !.rejected = TRUE, !.ret = FALSE]

\* RecordReaderBase::FailReading.
FailReading(s) ==
  TryRecovery(Fail([s EXCEPT !.recoverable = "kRecoverChunkReader"],
                   "DATA_LOSS"))

\* RecordReaderBase::FailSeeking.
FailSeeking(s) ==
  LET s1 == DecClear([s EXCEPT !.chunk_begin = s.src_pos])
  IN TryRecovery(Fail([s1 EXCEPT !.recoverable = "kRecoverChunkReader"],
                      "DATA_LOSS"))

\* A faulty ReadChunk which does not mark a chunk decoding failure as
\* recoverable.
ReadChunk_DecodeNotRecoverable(s) ==
  LET s1 == [s EXCEPT !.chunk_begin = s.src_pos]
      s2 == SrcReadChunk(s1)
  IN IF ~s2.ret
       THEN LET s3 == DecClear(s2)
            IN IF ~s3.src_healthy
                 THEN Fail([s3 EXCEPT !.recoverable = "kRecoverChunkReader"],
                           "DATA_LOSS")
                 ELSE [s3 EXCEPT !.ret = FALSE]
       ELSE LET s3 == DecDecode(s2, s1.src_pos)
            IN IF ~s3.ret THEN Fail(s3, "INVALID_ARGUMENT")
               ELSE [s3 EXCEPT !.ret = TRUE]

\* RecordReaderBase::ReadChunk.
ReadChunk(s) ==
  LET s1 == [s EXCEPT !.chunk_begin = s.src_pos]
      s2 == SrcReadChunk(s1)
  IN IF ~s2.ret
       THEN LET s3 == DecClear(s2)
            IN IF ~s3.src_healthy
                 THEN Fail([s3 EXCEPT !.recoverable = "kRecoverChunkReader"],
                           "DATA_LOSS")
                 ELSE [s3 EXCEPT !.ret = FALSE]
       ELSE LET s3 == DecDecode(s2, s1.src_pos)
            IN IF ~s3.ret
                 THEN Fail([s3 EXCEPT !.recoverable = "kRecoverChunkDecoder"],
                           "INVALID_ARGUMENT")
                 ELSE [s3 EXCEPT !.ret = TRUE]

\* A faulty pass which goes on when TryRecovery() returns false.
ReadRecordPass_RetriesWithoutRecovery(s) ==
  LET d == DecReadRecord(s)
  IN IF d.ret
       THEN <<[d EXCEPT !.last_record_is_valid = TRUE, !.ret = TRUE], "return">>
     ELSE IF ~s.healthy THEN <<TryRecovery(s), "recovered">>
     ELSE LET c == ReadChunk(s)
          IN IF ~c.ret THEN <<TryRecovery(c), "recovered">>
             ELSE <<c, "continue">>

\* One pass of the loop of RecordReaderBase::ReadRecordImpl: the state it
\* leaves, and whether it returns, continues after a recovery or continues
\* after it has read a chunk.
ReadRecordPass(s) ==
  LET d == DecReadRecord(s)
  IN IF d.ret
       THEN <<[d EXCEPT !.last_record_is_valid = TRUE, !.ret = TRUE], "return">>
     ELSE IF ~s.healthy
       THEN LET t == TryRecovery(s)
            IN <<t, IF t.ret THEN "recovered" ELSE "return">>
     ELSE IF ~s.dec_healthy
       THEN LET t == TryRecovery(
                       Fail([s EXCEPT !.recoverable = "kRecoverChunkDecoder"],
                            "INVALID_ARGUMENT"))
            IN <<t, IF t.ret THEN "recovered" ELSE "return">>
     ELSE LET c == ReadChunk(s)
          IN IF ~c.ret
               THEN LET t == TryRecovery(c)
                    IN <<t, IF t.ret THEN "recovered" ELSE "return">>
               ELSE <<c, "continue">>

\* The loop of RecordReaderBase::ReadRecordImpl.
RECURSIVE ReadRecordLoop(_)
ReadRecordLoop(s) ==
  LET Passed(p) == IF p[2] = "return" THEN p[1] ELSE ReadRecordLoop(p[1])
  IN Eval(ReadRecordPass(s), Passed)

\* RecordReaderBase::ReadRecordImpl.
ReadRecordImpl(s) ==
  ReadRecordLoop([s EXCEPT !.last_record_is_valid = FALSE])

\* A faulty Seek which takes the current chunk as already read whenever the
\* position sought is in it, without comparing src.pos() with chunk_begin_.
Seek_SameChunkNotReread(s, c, i) ==
  LET s0 == [s EXCEPT !.last_record_is_valid = FALSE]
  IN IF ~s0.healthy THEN TryRecovery(s0)
     ELSE IF c = s0.chunk_begin
       THEN [DecSetIndex(s0, i) EXCEPT !.ret = TRUE]
     ELSE
       LET s1 == SrcSeek(s0, c)
       IN IF ~s1.ret THEN FailSeeking(s1)
          ELSE IF i = 0
            THEN [DecClear([s1 EXCEPT !.chunk_begin = s1.src_pos])
                    EXCEPT !.ret = TRUE]
          ELSE LET s2 == ReadChunk(s1)
               IN IF ~s2.ret THEN TryRecovery(s2)
                  ELSE [DecSetIndex(s2, i) EXCEPT !.ret = TRUE]

\* RecordReaderBase::Seek(RecordPosition(c, i)).
Seek(s, c, i) ==
  LET s0 == [s EXCEPT !.last_record_is_valid = FALSE]
  IN IF ~s0.healthy THEN TryRecovery(s0)
     ELSE IF c = s0.chunk_begin /\ (i = 0 \/ s0.src_pos > s0.chunk_begin)
       THEN [DecSetIndex(s0, i) EXCEPT !.ret = TRUE]
     ELSE
       LET s1 == IF c = s0.chunk_begin THEN [s0 EXCEPT !.ret = TRUE]
                 ELSE SrcSeek(s0, c)
       IN IF ~s1.ret THEN FailSeeking(s1)
          ELSE IF c # s0.chunk_begin /\ i = 0
            THEN [DecClear([s1 EXCEPT !.chunk_begin = s1.src_pos])
                    EXCEPT !.ret = TRUE]
          ELSE LET s2 == ReadChunk(s1)
               IN IF ~s2.ret THEN TryRecovery(s2)
                  ELSE [DecSetIndex(s2, i) EXCEPT !.ret = TRUE]

\* One pass of the while loop of RecordReaderBase::SeekBack, entered with
\* chunk_pos > 0: the state it leaves, whether it returns, and chunk_pos.
SeekBackPass(s, chunk_pos) ==
  LET s1 == SrcSeekToChunkBefore(s, chunk_pos - 1)
  IN IF ~s1.ret
       THEN LET t == FailSeeking(s1)
            IN <<t, IF t.ret THEN "recovered" ELSE "return", s1.src_pos>>
       ELSE
         LET cp == s1.chunk_begin
             s2 == ReadChunk(s1)
         IN IF ~s2.ret
              THEN LET t == TryRecovery(s2)
                   IN <<t, IF t.ret THEN "recovered" ELSE "return", cp>>
            ELSE IF s2.dec_num > 0
              THEN <<[DecSetIndex(s2, s2.dec_num - 1) EXCEPT !.ret = TRUE],
                     "return", cp>>
            ELSE <<s2, "continue", cp>>

\* The while loop of RecordReaderBase::SeekBack.
RECURSIVE SeekBackLoop(_, _)
SeekBackLoop(s, chunk_pos) ==
  IF chunk_pos <= 0 THEN [s EXCEPT !.ret = FALSE]
  ELSE LET Passed(p) ==
             IF p[2] = "return" THEN p[1] ELSE SeekBackLoop(p[1], p[3])
       IN Eval(SeekBackPass(s, chunk_pos), Passed)

\* A faulty SeekBack which does not step back inside the current chunk.
SeekBack_NoStepInChunk(s) ==
  IF ~s.healthy THEN [s EXCEPT !.ret = FALSE]
  ELSE
    LET s0 == [s EXCEPT !.last_record_is_valid = FALSE]
    IN IF s0.dec_index > 0
         THEN [s0 EXCEPT !.ret = TRUE]
         ELSE SeekBackLoop(s0, s0.chunk_begin)

\* A faulty SeekBack which searches back from src.pos() instead of from
\* chunk_begin_.
SeekBack_FromSrcPos(s) ==
  IF ~s.healthy THEN [s EXCEPT !.ret = FALSE]
  ELSE
    LET s0 == [s EXCEPT !.last_record_is_valid = FALSE]
    IN IF s0.dec_index > 0
         THEN [DecSetIndex(s0, s0.dec_index - 1) EXCEPT !.ret = TRUE]
         ELSE SeekBackLoop(s0, s0.src_pos)

\* RecordReaderBase::SeekBack.
SeekBack(s) ==
  IF ~s.healthy THEN [s EXCEPT !.ret = FALSE]
  ELSE
    LET s0 == [s EXCEPT !.last_record_is_valid = FALSE]
    IN IF s0.dec_index > 0
         THEN [DecSetIndex(s0, s0.dec_index - 1) EXCEPT !.ret = TRUE]
         ELSE SeekBackLoop(s0, s0.chunk_begin)

\* A faulty ParseMetadata which returns false without failing the reader.
ParseMetadata_DoesNotFail(s) == [s EXCEPT !.ret = FALSE]

\* RecordReaderBase::ParseMetadata of a file metadata chunk which is not
\* valid: each of its failures is a Fail().
ParseMetadata(s) == Fail(s, "INVALID_ARGUMENT")

\* RecordReaderBase::ReadSerializedMetadata.
ReadSerializedMetadata(s) ==
  LET s0 == s
  IN IF ~s0.healthy THEN TryRecovery(s0)
     ELSE IF s0.src_pos # 0 THEN Fail(s0, "FAILED_PRECONDITION")
     ELSE
       LET s1 == SrcReadChunk([s0 EXCEPT !.chunk_begin = s0.src_pos])
       IN IF ~s1.ret
            THEN IF ~s1.src_healthy THEN FailReading(s1)
                 ELSE [s1 EXCEPT !.ret = FALSE]
            ELSE
              LET s2 == SrcPullChunkHeader(
                          [s1 EXCEPT !.chunk_begin = s1.src_pos])
              IN IF ~s2.ret
                   THEN IF ~s2.src_healthy THEN FailReading(s2)
                        ELSE [s2 EXCEPT !.ret = FALSE]
                 ELSE IF s2.metadata = "none" THEN [s2 EXCEPT !.ret = TRUE]
                 ELSE
                   LET s3 == SrcReadChunk(s2)
                   IN IF ~s3.ret
                        THEN IF ~s3.src_healthy THEN FailReading(s3)
                             ELSE [s3 EXCEPT !.ret = FALSE]
                      ELSE IF s3.metadata = "invalid"
                        THEN TryRecovery(
                               [ParseMetadata(s3) EXCEPT
                                  !.recoverable = "kRecoverChunkDecoder"])
                      ELSE [s3 EXCEPT !.ret = TRUE]

\* RecordReaderBase::CheckFileFormat.
CheckFileFormat(s) ==
  IF ~s.healthy THEN [s EXCEPT !.ret = FALSE]
  ELSE IF s.dec_num > 0 THEN [s EXCEPT !.ret = TRUE]
  ELSE
    LET s1 == SrcCheckFileFormat(s)
    IN IF ~s1.ret
         THEN LET s2 == DecClear(s1)
              IN IF ~s2.src_healthy
                   THEN Fail([s2 EXCEPT !.recoverable = "kRecoverChunkReader"],
                             "DATA_LOSS")
                   ELSE [s2 EXCEPT !.ret = FALSE]
         ELSE [s1 EXCEPT !.ret = TRUE]

\* RecordReaderBase::SetFieldProjection.
SetFieldProjection(s) ==
  IF ~s.healthy THEN [s EXCEPT !.ret = FALSE]
  ELSE
    LET record_index == s.dec_index
        s1 == SrcSeek(DecClear(s), s.chunk_begin)
    IN IF ~s1.ret THEN FailSeeking(s1)
       ELSE IF record_index > 0
         THEN LET s2 == ReadChunk(s1)
              IN IF ~s2.ret THEN TryRecovery(s2)
                 ELSE [DecSetIndex(s2, record_index) EXCEPT !.ret = TRUE]
       ELSE [s1 EXCEPT !.ret = TRUE]

(***************************************************************************)
(* RecordReaderBase::Search.  The state of a search is the reader r with   *)
(* the locals less_found (<<>> for nullopt, else <<chunk_begin,            *)
(* record_index, num_records>>) and greater_record_index.  The test        *)
(* function reads the record at the reader's position and compares its key *)
(* chunk_begin + index with the range [lo, hi): less below it, equivalent  *)
(* inside it, greater at or above hi.                                      *)
(***************************************************************************)

Test(s, lo, hi) ==
  LET Compare(t) ==
        [r |-> t,
         ordering |-> IF ~t.ret THEN "unordered"
                      ELSE IF t.rec[1] + t.rec[2] < lo THEN "less"
                      ELSE IF t.rec[1] + t.rec[2] < hi THEN "equivalent"
                      ELSE "greater"]
  IN Eval(ReadRecordImpl(s), Compare)

\* ChunkSearchTraits::Middle; <<>> is absl::nullopt.
Middle(s, low, high) ==
  IF low >= high THEN [r |-> s, middle |-> <<>>]
  ELSE
    LET s1 == SrcSeekToChunkBefore(s, low + (high - low) \div 2)
    IN IF s1.ret THEN [r |-> s1, middle |-> <<s1.src_pos>>]
       ELSE
         LET s2 == FailSeeking(s1)
         IN IF ~s2.ret THEN [r |-> s2, middle |-> <<>>]
            ELSE IF s2.src_pos >= high
              THEN LET s3 == SrcSeek(s2, low)
                   IN IF s3.ret THEN [r |-> s3, middle |-> <<s3.src_pos>>]
                      ELSE LET s4 == FailSeeking(s3)
                           IN IF ~s4.ret \/ s4.src_pos >= high
                                THEN [r |-> s4, middle |-> <<>>]
                                ELSE [r |-> s4, middle |-> <<s4.src_pos>>]
            ELSE [r |-> s2, middle |-> <<s2.src_pos>>]

\* The loop over the records of a chunk in the test of the search over
\* chunks.
RECURSIVE SearchChunkRecords(_, _, _, _, _, _)
SearchChunkRecords(st, chunk_begin, record_index, num_records, lo, hi) ==
  LET Cancel(s) ==
        [st |-> [r |-> s, less_found |-> <<>>, gri |-> record_index],
         ordering |-> "equivalent", next |-> chunk_begin]
      Recovered(u) ==
        IF ~u.ret THEN Cancel(u)
        ELSE [st |-> [st EXCEPT !.r = u],
              ordering |-> "unordered", next |-> u.src_pos]
      Tested(t) ==
        IF ~t.r.healthy THEN Eval(TryRecovery(t.r), Recovered)
        ELSE IF t.ordering = "less"
          THEN [st |-> [r |-> t.r,
                        less_found |-> <<chunk_begin, record_index + 1,
                                         num_records>>,
                        gri |-> st.gri],
                ordering |-> "less", next |-> t.r.src_pos]
        ELSE IF t.ordering = "equivalent"
          THEN [st |-> [r |-> t.r, less_found |-> <<>>,
                        gri |-> record_index],
                ordering |-> "equivalent", next |-> chunk_begin]
        ELSE IF t.ordering = "greater"
          THEN [st |-> [r |-> t.r, less_found |-> st.less_found,
                        gri |-> record_index],
                ordering |-> "greater", next |-> chunk_begin]
        ELSE SearchChunkRecords([st EXCEPT !.r = t.r], chunk_begin,
                                record_index + 1, num_records, lo, hi)
      Sought(s1) ==
        IF ~s1.ret THEN Cancel(s1) ELSE Eval(Test(s1, lo, hi), Tested)
  IN IF record_index >= num_records
       THEN [st |-> st, ordering |-> "unordered", next |-> st.r.src_pos]
     ELSE Eval(Seek(st.r, chunk_begin, record_index), Sought)

\* The test of the search over chunks: the guide for the chunk at
\* chunk_begin.
SearchChunk(st, chunk_begin, lo, hi) ==
  LET Cancel(s) ==
        [st |-> [r |-> s, less_found |-> <<>>, gri |-> 0],
         ordering |-> "equivalent", next |-> chunk_begin]
      Skipped(s) ==
        [st |-> [st EXCEPT !.r = s], ordering |-> "unordered",
         next |-> s.src_pos]
      SeekFailed(u) == IF ~u.ret THEN Cancel(u) ELSE Skipped(u)
      ReadFailed(u) ==
        IF u.ret THEN Skipped(u)
        ELSE IF u.healthy
          THEN [st |-> [r |-> u, less_found |-> st.less_found, gri |-> 0],
                ordering |-> "greater", next |-> chunk_begin]
        ELSE Cancel(u)
      Read(s2) ==
        IF ~s2.ret THEN Eval(TryRecovery(s2), ReadFailed)
        ELSE SearchChunkRecords([st EXCEPT !.r = s2], s2.chunk_begin, 0,
                                s2.dec_num, lo, hi)
      Sought(s1) ==
        IF ~s1.ret THEN Eval(FailSeeking(s1), SeekFailed)
        ELSE Eval(ReadChunk(s1), Read)
  IN Eval(SrcSeek(st.r, chunk_begin), Sought)

\* The test of the search over the records after the last record found
\* less, in the chunk at less_chunk_begin.
SearchRecord(st, less_chunk_begin, record_index, lo, hi) ==
  LET Guide(s, ordering) ==
        [st |-> [st EXCEPT !.r = s], ordering |-> ordering,
         next |-> IF ordering \in {"less", "unordered"}
                    THEN record_index + 1 ELSE record_index]
      Recovered(u) ==
        IF ~u.ret THEN Guide(u, "equivalent") ELSE Guide(u, "unordered")
      Tested(t) ==
        IF ~t.r.healthy THEN Eval(TryRecovery(t.r), Recovered)
        ELSE Guide(t.r, t.ordering)
      Sought(s1) ==
        IF ~s1.ret THEN Guide(s1, "equivalent")
        ELSE Eval(Test(s1, lo, hi), Tested)
  IN Eval(Seek(st.r, less_chunk_begin, record_index), Sought)

\* BinarySearch(low, high, test, traits) over chunks (less_chunk_begin = <<>>)
\* or over the records of the chunk <<less_chunk_begin>>.  With
\* middle = <<>> the search is at the choice of a new middle; otherwise
\* middle[1] is the position to test and middle[2] the middle chosen before
\* the unordered positions which led to it.  greater_found is the result if
\* no equivalent position is found.
RECURSIVE BinarySearch(_, _, _, _, _, _, _, _)
BinarySearch(st, low, high, greater_found, middle, less_chunk_begin, lo, hi) ==
  LET Chosen(m) ==
        IF m.middle = <<>>
          THEN [st |-> [st EXCEPT !.r = m.r], found |-> greater_found]
          ELSE BinarySearch([st EXCEPT !.r = m.r], low, high,
                            greater_found, m.middle \o m.middle,
                            less_chunk_begin, lo, hi)
      Guided(g) ==
        IF g.ordering = "less"
          THEN BinarySearch(g.st, g.next, high, greater_found, <<>>,
                            less_chunk_begin, lo, hi)
        ELSE IF g.ordering = "equivalent"
          THEN [st |-> g.st, found |-> g.next]
        ELSE IF g.ordering = "greater"
          THEN BinarySearch(g.st, low, middle[2], g.next, <<>>,
                            less_chunk_begin, lo, hi)
        ELSE IF g.next >= high
          THEN BinarySearch(g.st, low, middle[2], greater_found, <<>>,
                            less_chunk_begin, lo, hi)
        ELSE BinarySearch(g.st, low, high, greater_found,
                          <<g.next, middle[2]>>, less_chunk_begin, lo, hi)
  IN IF middle = <<>>
       THEN Eval(IF less_chunk_begin = <<>> THEN Middle(st.r, low, high)
                 ELSE [r |-> st.r,
                       middle |-> IF low >= high THEN <<>>
                                  ELSE <<low + (high - low) \div 2>>],
                 Chosen)
       ELSE Eval(IF less_chunk_begin = <<>>
                   THEN SearchChunk(st, middle[1], lo, hi)
                   ELSE SearchRecord(st, less_chunk_begin[1], middle[1],
                                     lo, hi),
                 Guided)

\* A faulty Search which does not search the records after the last record
\* found less.
Search_NoSearchInChunk(s, lo, hi) ==
  LET Sought(s1) ==
        IF ~s1.ret THEN [s1 EXCEPT !.ret = s1.healthy]
        ELSE [s1 EXCEPT !.ret = TRUE]
      Chunks(b) == Eval(Seek(b.st.r, b.found, b.st.gri), Sought)
  IN IF ~s.healthy THEN [s EXCEPT !.ret = FALSE]
     ELSE Eval(BinarySearch([r |-> [s EXCEPT !.last_record_is_valid = FALSE],
                             less_found |-> <<>>, gri |-> 0],
                            0, FileSize, FileSize, <<>>, <<>>, lo, hi),
               Chunks)

\* RecordReaderBase::Search with the test function of the range [lo, hi).
\* b is the outcome of the search over chunks, b2 that of the search over
\* the records after the last record found less.
Search(s, lo, hi) ==
  LET Sought(s1) ==
        IF ~s1.ret THEN [s1 EXCEPT !.ret = s1.healthy]
        ELSE [s1 EXCEPT !.ret = TRUE]
      Chunks(b) ==
        LET lf == b.st.less_found
            InChunk(b2) ==
              LET position == IF lf # <<>> /\ b2.found < lf[3]
                                THEN <<lf[1], b2.found>>
                                ELSE <<b.found, b.st.gri>>
              IN Eval(Seek(b2.st.r, position[1], position[2]), Sought)
        IN Eval(IF lf = <<>> THEN b
                ELSE BinarySearch(b.st, lf[2], lf[3], lf[3], <<>>,
                                  <<lf[1]>>, lo, hi),
                InChunk)
  IN IF ~s.healthy THEN [s EXCEPT !.ret = FALSE]
     ELSE Eval(BinarySearch([r |-> [s EXCEPT !.last_record_is_valid = FALSE],
                             less_found |-> <<>>, gri |-> 0],
                            0, FileSize, FileSize, <<>>, <<>>, lo, hi),
               Chunks)

(***************************************************************************)
(* The record reader as a state machine: every action is one public call.  *)
(***************************************************************************)
\* The state at the start of a call: the outcome fields are cleared, the
\* recovery callback follows policy a, and SeekBack notes the position
\* (chunk_begin_, index) it is called at.
Call(s, op, a) ==
  [s EXCEPT !.op = op, !.acc = a, !.skipped = FALSE, !.rejected = FALSE,
            !.ret = FALSE, !.rec = NoRec,
            !.from = IF op = "SeekBack" THEN <<s.chunk_begin, s.dec_index>>
                     ELSE NoRec]

\* The state a call leaves behind.
Return(s) == [s EXCEPT !.acc = 0]

\* A newly opened record reader.
RRNew ==
  [healthy |-> TRUE, status |-> "OK", chunk_begin |-> 0,
   recoverable |-> "kNo", last_record_is_valid |-> FALSE,
   dec_chunk |-> NoChunk, dec_num |-> 0, dec_index |-> 0,
   dec_healthy |-> TRUE, src_pos |-> 0, src_healthy |-> TRUE,
   op |-> "Init", acc |-> 0, skipped |-> FALSE, rejected |-> FALSE,
   ret |-> TRUE, rec |-> NoRec, from |-> NoRec, metadata |-> "none",
   chunk_pos |-> 0]

\* The chunk after the file signature, when it has no records, is a chunk of
\* records ("none"), a file metadata chunk ("valid") or a file metadata chunk
\* which ParseMetadata() rejects ("invalid"); rr.metadata tells which, for
\* as long as the file is read.
MetadataKinds(f) ==
  IF f[ChunkSz] = [kind |-> "ok", n |-> 0] THEN {"none", "valid", "invalid"}
  ELSE {"none"}

RRInit ==
  /\ file \in Files
  /\ recovery \in BOOLEAN
  /\ rr \in {[RRNew EXCEPT !.metadata = m] : m \in MetadataKinds(file)}

DoReadRecord ==
  /\ \E a \in AccPolicies : rr' = Return(ReadRecordImpl(Call(rr, "ReadRecord", a)))
  /\ UNCHANGED <<file, recovery, pw, td, lw, dec, od, sc, bk, dw, ow, vl, dr, nc, hs, fw, io>>

DoSeek ==
  /\ \E a \in AccPolicies, c \in Boundaries, i \in 0..MaxRecs :
       rr' = Return(Seek(Call(rr, "Seek", a), c, i))
  /\ UNCHANGED <<file, recovery, pw, td, lw, dec, od, sc, bk, dw, ow, vl, dr, nc, hs, fw, io>>

DoSeekBack ==
  /\ \E a \in AccPolicies : rr' = Return(SeekBack(Call(rr, "SeekBack", a)))
  /\ UNCHANGED <<file, recovery, pw, td, lw, dec, od, sc, bk, dw, ow, vl, dr, nc, hs, fw, io>>

DoRecover ==
  /\ rr' = Return(Recover(Call(rr, "Recover", 0)))
  /\ UNCHANGED <<file, recovery, pw, td, lw, dec, od, sc, bk, dw, ow, vl, dr, nc, hs, fw, io>>

DoReadMetadata ==
  /\ \E a \in AccPolicies :
       rr' = Return(ReadSerializedMetadata(Call(rr, "ReadMetadata", a)))
  /\ UNCHANGED <<file, recovery, pw, td, lw, dec, od, sc, bk, dw, ow, vl, dr, nc, hs, fw, io>>

DoCheckFileFormat ==
  /\ rr' = Return(CheckFileFormat(Call(rr, "CheckFileFormat", 0)))
  /\ UNCHANGED <<file, recovery, pw, td, lw, dec, od, sc, bk, dw, ow, vl, dr, nc, hs, fw, io>>

DoSetFieldProjection ==
  /\ \E a \in AccPolicies :
       rr' = Return(SetFieldProjection(Call(rr, "SetFieldProjection", a)))
  /\ UNCHANGED <<file, recovery, pw, td, lw, dec, od, sc, bk, dw, ow, vl, dr, nc, hs, fw, io>>

\* The ranges [lo, hi) test is called with are bounded by keys of records of
\* the file or by the end of the file: every other range orders the records
\* as one of these does.
Thresholds ==
  {c + i : <<c, i>> \in {p \in ChunkBegins \X (0..(MaxRecs - 1)) :
                           file[p[1]].kind = "ok" /\ p[2] < file[p[1]].n}}
    \cup {FileSize}

\* The recovery callback is called only when one is installed and some
\* chunk of the file is not readable.
SearchPolicies ==
  IF recovery /\ \E c \in ChunkBegins : file[c].kind # "ok"
    THEN AccPolicies ELSE {0}

\* Search for the records of one key (hi = lo + 1) or of all keys from lo.
DoSearch ==
  /\ \E a \in SearchPolicies, lo \in Thresholds :
       \E hi \in {lo + 1, FileSize + 1} :
         rr' = Return(Search(Call(rr, "Search", a), lo, hi))
  /\ UNCHANGED <<file, recovery, pw, td, lw, dec, od, sc, bk, dw, ow, vl, dr, nc, hs, fw, io>>

RRNext ==
  \/ DoReadRecord
  \/ DoSearch
  \/ DoSeek
  \/ DoSeekBack
  \/ DoRecover
  \/ DoReadMetadata
  \/ DoCheckFileFormat
  \/ DoSetFieldProjection

(***************************************************************************)
(* Writer and PushableWriter.                                              *)
(*                                                                         *)
(* The writer is a record: buf holds the bytes between start() and         *)
(* cursor(), buf_size is limit() - start(), scratch is "null" (scratch_ is *)
(* nullptr), "empty" (allocated, buffer empty) or "used"; orig_buf and     *)
(* orig_size are the buffer saved in the scratch; dest holds the bytes the *)
(* implementation has taken out of its buffer.                             *)
(***************************************************************************)
\* Largest buffer the implementation provides in one PushBehindScratch().
MaxBuf == 2
\* Largest min_length of Push() and largest length of Write()/WriteZeros().
MaxLen == 3
\* Largest position reached by the writer.
MaxPos == 4
\* Largest number of buffers a failing implementation provides within a call
\* before it fails.
MaxPushOk == 1

PushBudgets == (0..MaxPushOk) \cup {Always}

\* absl::nullopt as the result of Size().
nullopt == 0 - 1

available(s) == s.buf_size - Len(s.buf)
pos(s) == s.start_pos + Len(s.buf)
scratch_used(s) == s.scratch = "used"

\* The bytes a Write() of n bytes at position p carries: byte i of the stream
\* has value i.
Data(p, n) == [i \in 1..n |-> p + i]
Zeros(n) == [i \in 1..n |-> 0]

\* Writer::OnFail, and PushableWriter::OnFail for a PushableWriter.
OnFail(s) ==
  IF s.kind = "PushableWriter"
    THEN [s EXCEPT !.buf = <<>>, !.buf_size = 0, !.scratch = "null",
                   !.orig_buf = <<>>, !.orig_size = 0]
    ELSE [s EXCEPT !.buf = <<>>, !.buf_size = 0]

\* Object::Fail: the first failure status is retained; calls OnFail().
WriterFail(s, st) ==
  OnFail([s EXCEPT !.healthy = FALSE,
                   !.status = IF s.healthy THEN st ELSE s.status,
                   !.ret = FALSE])

\* Writer::FailOverflow.
FailOverflow(s) == WriterFail(s, "RESOURCE_EXHAUSTED")

\* Entering a BehindScratch hook: notes the call, and whether the scratch was
\* in use.
Hook(s) ==
  [s EXCEPT !.hooked = TRUE, !.bad_hook = @ \/ scratch_used(s)]

\* The implementation's buffer refill: the bytes of the buffer go to the
\* destination and a new buffer of k bytes is provided, or the writer fails.
Refill(s, size) ==
  IF ~s.healthy THEN [s EXCEPT !.ret = FALSE]
  ELSE IF s.budget = 0 THEN FailOverflow(s)
  ELSE [s EXCEPT !.dest = @ \o s.buf, !.start_pos = @ + Len(s.buf),
                 !.buf = <<>>, !.buf_size = size,
                 !.budget = IF @ = Always THEN @ ELSE @ - 1,
                 !.ret = TRUE]

\* PushableWriter::PushBehindScratch of the implementation, which provides k
\* bytes at a time.
PushBehindScratch(s) == Refill(Hook(s), s.k)

\* The do-while loop of the default PushableWriter::WriteBehindScratch.
RECURSIVE WriteBehindScratchLoop(_, _)
WriteBehindScratchLoop(s, src) ==
  LET n == available(s)
      s1 == [s EXCEPT !.buf = @ \o SubSeq(src, 1, n)]
      rest == SubSeq(src, n + 1, Len(src))
      s2 == PushBehindScratch(s1)
  IN IF ~s2.ret THEN s2
     ELSE IF Len(rest) > available(s2) THEN WriteBehindScratchLoop(s2, rest)
     ELSE [s2 EXCEPT !.buf = @ \o rest, !.ret = TRUE]

\* PushableWriter::WriteBehindScratch(string_view).
WriteBehindScratch(s, src) == WriteBehindScratchLoop(Hook(s), src)

\* PushableWriter::WriteZerosBehindScratch: the same loop, writing zeros.
WriteZerosBehindScratch(s, length) ==
  WriteBehindScratchLoop(Hook(s), Zeros(length))

\* A faulty FlushBehindScratch which reports success without looking at
\* healthy().
FlushBehindScratch_AlwaysTrue(s) == [Hook(s) EXCEPT !.ret = TRUE]

\* PushableWriter::FlushBehindScratch.
FlushBehindScratch(s) == LET h == Hook(s) IN [h EXCEPT !.ret = h.healthy]

\* PushableWriter::SeekBehindScratch.
SeekBehindScratch(s) == WriterFail(Hook(s), "UNIMPLEMENTED")

\* PushableWriter::SizeBehindScratch.
SizeBehindScratch(s) ==
  [WriterFail(Hook(s), "UNIMPLEMENTED") EXCEPT !.size = nullopt]

\* PushableWriter::TruncateBehindScratch.
TruncateBehindScratch(s) == WriterFail(Hook(s), "UNIMPLEMENTED")

\* PushableWriter::DoneBehindScratch.
DoneBehindScratch(s) == FlushBehindScratch(Hook(s))

\* PushSlow() of an implementation deriving from Writer directly: a buffer of
\* at least min_length bytes, or failure.
ImplPushSlow(s, min_length) ==
  Refill(s, IF s.k < min_length THEN min_length ELSE s.k)

\* The loop of Writer::WriteSlow(string_view), PushSlow() being the
\* implementation's.
RECURSIVE WriterWriteSlowLoop(_, _)
WriterWriteSlowLoop(s, src) ==
  LET n == available(s)
      s1 == [s EXCEPT !.buf = @ \o SubSeq(src, 1, n)]
      rest == SubSeq(src, n + 1, Len(src))
      s2 == ImplPushSlow(s1, 1)
  IN IF ~s2.ret THEN s2
     ELSE IF Len(rest) > available(s2) THEN WriterWriteSlowLoop(s2, rest)
     ELSE [s2 EXCEPT !.buf = @ \o rest, !.ret = TRUE]

\* Writer::WriteSlow(string_view).
WriterWriteSlow(s, src) == WriterWriteSlowLoop(s, src)

\* Writer::WriteZerosSlow.
WriterWriteZerosSlow(s, length) == WriterWriteSlowLoop(s, Zeros(length))

\* Writer::FlushImpl.
WriterFlushImpl(s) == [s EXCEPT !.ret = s.healthy]

\* Writer::SeekImpl.
WriterSeekImpl(s) == WriterFail(s, "UNIMPLEMENTED")

\* Writer::SizeImpl.
WriterSizeImpl(s) == [WriterFail(s, "UNIMPLEMENTED") EXCEPT !.size = nullopt]

\* Writer::TruncateImpl.
WriterTruncateImpl(s) == WriterFail(s, "UNIMPLEMENTED")

\* Writer::Write(string_view) as SyncScratch() calls it: the scratch has
\* been moved out, so that PushableWriter::WriteSlow, when the bytes do not
\* fit in the buffer, goes on to WriteBehindScratch().
WriteFromSyncScratch(s, src) ==
  IF available(s) >= Len(src)
    THEN [s EXCEPT !.buf = @ \o src, !.ret = TRUE]
    ELSE WriteBehindScratch(s, src)

\* PushableWriter::SyncScratch.  The scratch holds at most kMaxBytesToCopy
\* bytes here, so its contents are written as a string_view.  When that
\* Write() fails, OnFail() has reset scratch_ and the following
\* scratch_->buffer = ... dereferences a null pointer: the call crashes
\* (s.ub) or carries on.
SyncScratch(s) ==
  LET data == s.buf
      s1 == [s EXCEPT !.buf = s.orig_buf, !.buf_size = s.orig_size,
                      !.start_pos = @ - Len(s.orig_buf),
                      !.scratch = "empty", !.synced = TRUE]
      s2 == WriteFromSyncScratch(s1, data)
  IN IF s2.scratch = "null"
       THEN IF s.ub THEN [s2 EXCEPT !.crashed = TRUE] ELSE s2
       ELSE [s2 EXCEPT !.scratch = "empty"]

\* A faulty PushSlow which asks the scratch for recommended_length bytes only.
PushSlow_ScratchOfRecommendedLength(s, min_length, recommended_length) ==
  LET s1 == IF scratch_used(s) THEN SyncScratch(s) ELSE [s EXCEPT !.ret = TRUE]
  IN IF scratch_used(s) /\ ~s1.ret THEN s1
     ELSE IF scratch_used(s) /\ available(s1) >= min_length
       THEN [s1 EXCEPT !.ret = TRUE]
     ELSE IF min_length > 1
       THEN
         LET s2 == IF available(s1) = 0 THEN PushBehindScratch(s1)
                   ELSE [s1 EXCEPT !.ret = TRUE]
         IN IF available(s1) = 0 /\ ~s2.ret THEN s2
            ELSE IF available(s1) = 0 /\ available(s2) >= min_length
              THEN [s2 EXCEPT !.ret = TRUE]
            ELSE [s2 EXCEPT !.start_pos = pos(s2),
                            !.orig_buf = s2.buf, !.orig_size = s2.buf_size,
                            !.buf = <<>>,
                            !.buf_size = IF recommended_length > 0
                                           THEN recommended_length ELSE 1,
                            !.scratch = "used", !.ret = TRUE]
     ELSE PushBehindScratch(s1)

\* PushableWriter::PushSlow.
PushSlow(s, min_length, recommended_length) ==
  LET s1 == IF scratch_used(s) THEN SyncScratch(s) ELSE [s EXCEPT !.ret = TRUE]
  IN IF scratch_used(s) /\ ~s1.ret THEN s1
     ELSE IF scratch_used(s) /\ available(s1) >= min_length
       THEN [s1 EXCEPT !.ret = TRUE]
     ELSE IF min_length > 1
       THEN
         LET s2 == IF available(s1) = 0 THEN PushBehindScratch(s1)
                   ELSE [s1 EXCEPT !.ret = TRUE]
         IN IF available(s1) = 0 /\ ~s2.ret THEN s2
            ELSE IF available(s1) = 0 /\ available(s2) >= min_length
              THEN [s2 EXCEPT !.ret = TRUE]
            ELSE [s2 EXCEPT !.start_pos = pos(s2),
                            !.orig_buf = s2.buf, !.orig_size = s2.buf_size,
                            !.buf = <<>>,
                            !.buf_size = IF recommended_length > min_length
                                           THEN recommended_length
                                           ELSE min_length,
                            !.scratch = "used", !.ret = TRUE]
     ELSE PushBehindScratch(s1)

\* PushableWriter::WriteSlow(string_view).
WriteSlow(s, src) ==
  LET s1 == IF scratch_used(s) THEN SyncScratch(s) ELSE [s EXCEPT !.ret = TRUE]
  IN IF scratch_used(s) /\ ~s1.ret THEN s1
     ELSE IF scratch_used(s) /\ available(s1) >= Len(src)
       THEN [s1 EXCEPT !.buf = @ \o src, !.ret = TRUE]
     ELSE WriteBehindScratch(s1, src)

\* PushableWriter::WriteZerosSlow.
WriteZerosSlow(s, length) ==
  LET s1 == IF scratch_used(s) THEN SyncScratch(s) ELSE [s EXCEPT !.ret = TRUE]
  IN IF scratch_used(s) /\ ~s1.ret THEN s1
     ELSE IF scratch_used(s) /\ available(s1) >= length
       THEN [s1 EXCEPT !.buf = @ \o Zeros(length), !.ret = TRUE]
     ELSE WriteZerosBehindScratch(s1, length)

\* A faulty FlushImpl which does not write the scratch out.
FlushImpl_NoSyncScratch(s) == FlushBehindScratch(s)

\* PushableWriter::FlushImpl.
FlushImpl(s) ==
  LET s1 == IF scratch_used(s) THEN SyncScratch(s) ELSE [s EXCEPT !.ret = TRUE]
  IN IF scratch_used(s) /\ ~s1.ret THEN s1 ELSE FlushBehindScratch(s1)

\* PushableWriter::SeekImpl.
SeekImpl(s) ==
  LET s1 == IF scratch_used(s) THEN SyncScratch(s) ELSE [s EXCEPT !.ret = TRUE]
  IN IF scratch_used(s) /\ ~s1.ret THEN s1 ELSE SeekBehindScratch(s1)

\* PushableWriter::SizeImpl: when SyncScratch() fails it returns false, which
\* converts to an optional holding 0.
SizeImpl(s) ==
  LET s1 == IF scratch_used(s) THEN SyncScratch(s) ELSE [s EXCEPT !.ret = TRUE]
  IN IF scratch_used(s) /\ ~s1.ret THEN [s1 EXCEPT !.size = 0]
     ELSE SizeBehindScratch(s1)

\* PushableWriter::TruncateImpl.
TruncateImpl(s) ==
  LET s1 == IF scratch_used(s) THEN SyncScratch(s) ELSE [s EXCEPT !.ret = TRUE]
  IN IF scratch_used(s) /\ ~s1.ret THEN s1 ELSE TruncateBehindScratch(s1)

\* A faulty BehindScratch::Leave which keeps start_pos() as the scope left it.
Leave_KeepsStartPos(s) ==
  [s EXCEPT !.orig_buf = s.buf, !.orig_size = s.buf_size,
            !.buf = s.scope_buf, !.buf_size = s.scope_size,
            !.scratch = "used", !.scope = "none",
            !.scope_buf = <<>>, !.scope_size = 0]

\* PushableWriter::BehindScratch::Enter: the scope takes the scratch, the
\* buffer saved in it comes back and start_pos() goes back with it.
Enter(s) ==
  [s EXCEPT !.scope = "scratch", !.scope_buf = s.buf,
            !.scope_size = s.buf_size,
            !.buf = s.orig_buf, !.buf_size = s.orig_size,
            !.start_pos = @ - Len(s.orig_buf),
            !.scratch = "null", !.orig_buf = <<>>, !.orig_size = 0]

\* PushableWriter::BehindScratch::Leave: the buffer is saved in the scratch
\* again and the scratch becomes the buffer, at the current position.
Leave(s) ==
  [s EXCEPT !.start_pos = pos(s),
            !.orig_buf = s.buf, !.orig_size = s.buf_size,
            !.buf = s.scope_buf, !.buf_size = s.scope_size,
            !.scratch = "used", !.scope = "none",
            !.scope_buf = <<>>, !.scope_size = 0]

\* BehindScratch::BehindScratch(context).
BehindScratch(s) ==
  IF scratch_used(s) THEN Enter(s) ELSE [s EXCEPT !.scope = "plain"]

\* BehindScratch::~BehindScratch().
BehindScratchEnd(s) ==
  IF s.scope = "scratch" THEN Leave(s) ELSE [s EXCEPT !.scope = "none"]

\* Writer::Done: the buffer is dropped, the position kept.
WriterDone(s) ==
  [s EXCEPT !.start_pos = pos(s), !.buf = <<>>, !.buf_size = 0]

\* PushableWriter::Done.
Done(s) ==
  LET s1 == IF scratch_used(s) THEN SyncScratch(s) ELSE [s EXCEPT !.ret = TRUE]
      s2 == IF ~scratch_used(s) \/ s1.ret THEN DoneBehindScratch(s1) ELSE s1
  IN IF s2.crashed THEN s2
     ELSE WriterDone([s2 EXCEPT !.scratch = "null", !.orig_buf = <<>>,
                                !.orig_size = 0])

\* Writer::Push.
Push(s, min_length, recommended_length) ==
  IF available(s) >= min_length THEN [s EXCEPT !.ret = TRUE]
  ELSE IF s.kind = "PushableWriter"
    THEN PushSlow(s, min_length, recommended_length)
  ELSE ImplPushSlow(s, min_length)

\* Writer::Write(string_view): copies into the buffer when the bytes fit,
\* calls the virtual WriteSlow() otherwise.
Write(s, src) ==
  IF available(s) >= Len(src)
    THEN [s EXCEPT !.buf = @ \o src, !.ret = TRUE]
  ELSE IF s.kind = "PushableWriter" THEN WriteSlow(s, src)
  ELSE WriterWriteSlow(s, src)

\* Writer::WriteZeros.
WriteZeros(s, length) ==
  IF available(s) >= length
    THEN [s EXCEPT !.buf = @ \o Zeros(length), !.ret = TRUE]
  ELSE IF s.kind = "PushableWriter" THEN WriteZerosSlow(s, length)
  ELSE WriterWriteZerosSlow(s, length)

\* Writer::Flush.
Flush(s) ==
  IF s.kind = "PushableWriter" THEN FlushImpl(s) ELSE WriterFlushImpl(s)

\* Writer::Seek.
WriterSeek(s) ==
  IF s.kind = "PushableWriter" THEN SeekImpl(s) ELSE WriterSeekImpl(s)

\* Writer::Size: a failure is reported by nullopt.
Size(s) ==
  LET s1 == IF s.kind = "PushableWriter" THEN SizeImpl(s)
            ELSE WriterSizeImpl(s)
  IN [s1 EXCEPT !.ret = (s1.size # nullopt)]

\* Writer::Truncate.
Truncate(s) ==
  IF s.kind = "PushableWriter" THEN TruncateImpl(s) ELSE WriterTruncateImpl(s)

\* Object::Close.
Close(s) ==
  LET s1 == IF s.kind = "PushableWriter" THEN Done(s) ELSE WriterDone(s)
  IN [s1 EXCEPT !.closed = ~s1.crashed, !.ret = s1.healthy]

(***************************************************************************)
(* The writer as a state machine: every action is one public call.         *)
(***************************************************************************)
\* The state at the start of a call: the outcome fields are cleared; during
\* the call the implementation provides buffers of k bytes, budget times.
WCall(s, op, arg, k, budget, ub) ==
  [s EXCEPT !.op = op, !.arg = arg, !.k = k, !.budget = budget, !.ub = ub,
            !.ret = FALSE, !.size = nullopt, !.hooked = FALSE,
            !.synced = FALSE, !.bad_hook = FALSE,
            !.was_healthy = s.healthy, !.was_status = s.status,
            !.was_scratch = scratch_used(s)]

\* The state a call leaves behind.
WReturn(s) == [s EXCEPT !.k = 1, !.budget = 0, !.ub = FALSE]

\* A newly opened writer, with no buffer yet.
PWNew(kind) ==
  [kind |-> kind, healthy |-> TRUE, status |-> "OK", closed |-> FALSE,
   crashed |-> FALSE, start_pos |-> 0, buf |-> <<>>, buf_size |-> 0,
   scratch |-> "null", orig_buf |-> <<>>, orig_size |-> 0, dest |-> <<>>,
   op |-> "Init", arg |-> 0, k |-> 1, budget |-> 0, ub |-> FALSE,
   ret |-> TRUE, size |-> nullopt, hooked |-> FALSE, synced |-> FALSE,
   bad_hook |-> FALSE, was_healthy |-> TRUE, was_status |-> "OK",
   was_scratch |-> FALSE, accepted |-> <<>>, scope |-> "none",
   scope_buf |-> <<>>, scope_size |-> 0]

PWInit == pw \in {PWNew("PushableWriter"), PWNew("Writer")}

\* Public calls are made on an open writer, outside of a BehindScratch scope.
Open == ~pw.closed /\ ~pw.crashed /\ pw.scope = "none"

\* The bytes the writer has accepted: those of the calls which succeeded.
Accept(s, src) == IF s.ret THEN [s EXCEPT !.accepted = @ \o src] ELSE s

\* The outcomes of undefined behaviour considered in a call: it can only
\* arise when the scratch is written out.
UBChoices(s) == IF scratch_used(s) THEN BOOLEAN ELSE {FALSE}

DoPush ==
  /\ Open
  /\ \E k \in 1..MaxBuf, b \in PushBudgets, ub \in UBChoices(pw),
        min_length \in 1..MaxLen, recommended_length \in {0, MaxLen} :
       pw' = WReturn(Push(WCall(pw, "Push", min_length, k, b, ub),
                          min_length, recommended_length))
  /\ UNCHANGED <<file, recovery, rr, td, lw, dec, od, sc, bk, dw, ow, vl, dr, nc, hs, fw, io>>

DoWrite ==
  /\ Open
  /\ \E k \in 1..MaxBuf, b \in PushBudgets, ub \in UBChoices(pw), n \in 1..MaxLen :
       /\ pos(pw) + n <= MaxPos
       /\ pw' = WReturn(Accept(Write(WCall(pw, "Write", n, k, b, ub),
                                     Data(pos(pw), n)),
                               Data(pos(pw), n)))
  /\ UNCHANGED <<file, recovery, rr, td, lw, dec, od, sc, bk, dw, ow, vl, dr, nc, hs, fw, io>>

DoWriteZeros ==
  /\ Open
  /\ \E k \in 1..MaxBuf, b \in PushBudgets, ub \in UBChoices(pw), n \in 1..MaxLen :
       /\ pos(pw) + n <= MaxPos
       /\ pw' = WReturn(Accept(WriteZeros(WCall(pw, "WriteZeros", n, k, b,
                                                ub), n),
                               Zeros(n)))
  /\ UNCHANGED <<file, recovery, rr, td, lw, dec, od, sc, bk, dw, ow, vl, dr, nc, hs, fw, io>>

DoFlush ==
  /\ Open
  /\ \E k \in 1..MaxBuf, b \in PushBudgets, ub \in UBChoices(pw) :
       pw' = WReturn(Flush(WCall(pw, "Flush", 0, k, b, ub)))
  /\ UNCHANGED <<file, recovery, rr, td, lw, dec, od, sc, bk, dw, ow, vl, dr, nc, hs, fw, io>>

DoWriterSeek ==
  /\ Open
  /\ \E k \in 1..MaxBuf, b \in PushBudgets, ub \in UBChoices(pw) :
       pw' = WReturn(WriterSeek(WCall(pw, "Seek", 0, k, b, ub)))
  /\ UNCHANGED <<file, recovery, rr, td, lw, dec, od, sc, bk, dw, ow, vl, dr, nc, hs, fw, io>>

DoSize ==
  /\ Open
  /\ \E k \in 1..MaxBuf, b \in PushBudgets, ub \in UBChoices(pw) :
       pw' = WReturn(Size(WCall(pw, "Size", 0, k, b, ub)))
  /\ UNCHANGED <<file, recovery, rr, td, lw, dec, od, sc, bk, dw, ow, vl, dr, nc, hs, fw, io>>

DoTruncate ==
  /\ Open
  /\ \E k \in 1..MaxBuf, b \in PushBudgets, ub \in UBChoices(pw) :
       pw' = WReturn(Truncate(WCall(pw, "Truncate", 0, k, b, ub)))
  /\ UNCHANGED <<file, recovery, rr, td, lw, dec, od, sc, bk, dw, ow, vl, dr, nc, hs, fw, io>>

DoClose ==
  /\ Open
  /\ \E k \in 1..MaxBuf, b \in PushBudgets, ub \in UBChoices(pw) :
       pw' = WReturn(Close(WCall(pw, "Close", 0, k, b, ub)))
  /\ UNCHANGED <<file, recovery, rr, td, lw, dec, od, sc, bk, dw, ow, vl, dr, nc, hs, fw, io>>

\* An implementation enters a BehindScratch scope, to move its destination.
DoBehindScratch ==
  /\ Open /\ pw.kind = "PushableWriter" /\ pw.healthy
  /\ pw' = WReturn(BehindScratch(WCall(pw, "BehindScratch", 0, 1, 0, FALSE)))
  /\ UNCHANGED <<file, recovery, rr, td, lw, dec, od, sc, bk, dw, ow, vl, dr, nc, hs, fw, io>>

\* The scope ends.
DoBehindScratchEnd ==
  /\ pw.scope # "none"
  /\ pw' = WReturn(BehindScratchEnd(WCall(pw, "~BehindScratch", 0, 1, 0,
                                          FALSE)))
  /\ UNCHANGED <<file, recovery, rr, td, lw, dec, od, sc, bk, dw, ow, vl, dr, nc, hs, fw, io>>

PWNext ==
  \/ DoBehindScratch
  \/ DoBehindScratchEnd
  \/ DoPush
  \/ DoWrite
  \/ DoWriteZeros
  \/ DoFlush
  \/ DoWriterSeek
  \/ DoSize
  \/ DoTruncate
  \/ DoClose

(***************************************************************************)
(* TransposeDecoder: the state machine of a transposed chunk.  The model   *)
(* keeps what decides the control flow of Parse() and Decode(): for each   *)
(* node its callback type, its kImplicit bit and its next node; the        *)
(* current node, num_iters and the number of transition bytes read so      *)
(* far.  Buffers, the destination and the submessage stack are not         *)
(* modelled; a callback which reads or writes them succeeds or fails.      *)
(* implicit_transition records that Decode() left an implicit node         *)
(* without reading a transition byte.                                      *)
(***************************************************************************)
\* state_machine_size of the chunks considered.
NumNodes == 2
\* The largest value of transition_byte >> 2 considered (6 bits in the code).
MaxJump == 1
\* The largest number of bytes of the transitions stream.
MaxTransitions == 2

\* Number of failure nodes past the state machine: 0xff in the code, which
\* covers the largest jump; MaxJump covers the largest jump here.
NumFailureNodes == MaxJump
VecSize == NumNodes + NumFailureNodes
\* state_machine_size is a uint32_t and state_machine_size + 0xff is computed
\* in its width.  SizeModulus stands for 2^32: the headers of NumNodes nodes
\* are far from it, and MaxStateMachineSize is the largest size a header can
\* declare.
SizeModulus == 2 * VecSize
MaxStateMachineSize == SizeModulus - 1
\* The number of entries of state_machine_nodes after
\* resize(*state_machine_size + 0xff).
TableSize(state_machine_size) ==
  (state_machine_size + NumFailureNodes) % SizeModulus
NodeIds == 0 .. (VecSize - 1)
NullNode == 0 - 1

\* Encoded next node indices: index + state_machine_size marks the node as
\* implicit; 2 * state_machine_size is an index which is too large.
NextNodeIndices == 0 .. (2 * NumNodes)
\* Tags of the header: a no-op node or a varint field.
Tags == {"kNoOp", "kVarint"}
\* First node indices; NumNodes is too large.
FirstNodes == 0 .. NumNodes
\* Transition bytes: the node offset in the high bits, num_iters in the two
\* low bits.
TransitionBytes == 0 .. (4 * (MaxJump + 1) - 1)
\* What transitions_reader.ReadByte() can return after n bytes were read:
\* a byte, or nullopt at the end of the stream.
ReadByte(n) ==
  {nullopt} \cup (IF n < MaxTransitions THEN TransitionBytes ELSE {})

\* A value-initialized StateMachineNode.
NewNode == [callback_type |-> "kUnknown", implicit |-> FALSE,
            next_node |-> NullNode]

\* internal::IsImplicit.
IsImplicit(node) == node.implicit

\* The inner loop of ContainsImplicitLoop with its two tests exchanged.
ImplicitChain_BreakOnVisited(nodes, ids, node, id) ==
  [ids |-> ids, found |-> FALSE]

\* The inner while loop of TransposeDecoder::ContainsImplicitLoop, starting
\* at index node with loop id id.
RECURSIVE ImplicitChain(_, _, _, _)
ImplicitChain(nodes, ids, node, id) ==
  IF ~IsImplicit(nodes[node]) THEN [ids |-> ids, found |-> FALSE]
  ELSE LET j == nodes[node].next_node
       IN IF ids[j] = id THEN [ids |-> ids, found |-> TRUE]
          ELSE IF ids[j] # 0 THEN [ids |-> ids, found |-> FALSE]
          ELSE ImplicitChain(nodes, [ids EXCEPT ![j] = id], j, id)

\* The outer for loop of TransposeDecoder::ContainsImplicitLoop from index i.
RECURSIVE ImplicitLoopFrom(_, _, _, _)
ImplicitLoopFrom(nodes, ids, i, next_loop_id) ==
  IF i >= VecSize THEN FALSE
  ELSE IF ids[i] # 0 THEN ImplicitLoopFrom(nodes, ids, i + 1, next_loop_id)
  ELSE LET r == ImplicitChain(nodes, [ids EXCEPT ![i] = next_loop_id], i,
                              next_loop_id)
       IN IF r.found THEN TRUE
          ELSE ImplicitLoopFrom(nodes, r.ids, i + 1, next_loop_id + 1)

\* TransposeDecoder::ContainsImplicitLoop.
ContainsImplicitLoop(nodes) ==
  ImplicitLoopFrom(nodes, [i \in NodeIds |-> 0], 0, 1)

\* The loop of Parse() over the nodes of the header, from node i: with
\* projection enabled a field node gets kSelectCallback; the next node index
\* decides the kImplicit bit and is checked against state_machine_size.
RECURSIVE ParseNodes(_, _)
ParseNodes(s, i) ==
  IF i >= NumNodes THEN [s EXCEPT !.ret = TRUE]
  ELSE
    LET type == IF s.tags[i] = "kNoOp" THEN "kNoOp" ELSE "kSelectCallback"
        implicit == s.next_node_indices[i] >= NumNodes
        next_node_id == IF implicit THEN s.next_node_indices[i] - NumNodes
                        ELSE s.next_node_indices[i]
    IN IF next_node_id >= NumNodes
         THEN Fail([s EXCEPT !.nodes[i].callback_type = type,
                             !.nodes[i].implicit = implicit],
                   "INVALID_ARGUMENT: Node index too large")
         ELSE ParseNodes([s EXCEPT !.nodes[i] =
                            [callback_type |-> type, implicit |-> implicit,
                             next_node |-> next_node_id]], i + 1)

\* TransposeDecoder::Parse, from the state machine part of the header on.
\* A header which holds fewer tags and next node indices than it declares
\* fails to be read.  When the table has fewer entries than
\* state_machine_size, the loop over the nodes stores past its end
\* (out_of_table): the behaviour is undefined from there.
Parse(s) ==
  LET s1 == ParseNodes(s, 0)
      s2 == [s1 EXCEPT !.first_node = s.first_node_index,
                       !.nodes = [i \in NodeIds |->
                                    IF i >= NumNodes
                                      THEN [s1.nodes[i] EXCEPT
                                              !.callback_type = "kFailure"]
                                      ELSE s1.nodes[i]]]
  IN IF s.header_entries < s.state_machine_size
       THEN Fail(s, "INVALID_ARGUMENT: Reading field tag failed")
     ELSE IF TableSize(s.state_machine_size) < s.state_machine_size
       THEN [s EXCEPT !.out_of_table = TRUE, !.ret = FALSE]
     ELSE IF ~s1.ret THEN s1
     ELSE IF s.first_node_index >= NumNodes
       THEN Fail(s1, "INVALID_ARGUMENT: First node index too large")
     ELSE IF ContainsImplicitLoop(s2.nodes)
       THEN Fail(s2, "INVALID_ARGUMENT: Nodes contain an implicit loop")
     ELSE [s2 EXCEPT !.ret = TRUE]

\* TransposeDecoder::SetCallbackType: the callback type of the field for the
\* current projection; the kImplicit bit is kept.
SetCallbackType(s, field_included) ==
  [s EXCEPT !.nodes[s.node].callback_type =
              IF field_included THEN "kVarint" ELSE "kNoOp",
            !.ret = TRUE]

\* The end of Decode() after the transitions stream is exhausted: the
\* checks of the stream, of the open submessages and of the records pass or
\* fail.
DecodeDone(s, ok) ==
  IF ok THEN [s EXCEPT !.pc = "Done", !.ret = TRUE]
  ELSE [Fail(s, "INVALID_ARGUMENT: Too few records") EXCEPT !.pc = "Done"]

\* A faulty do_transition which decrements num_iters at implicit nodes only.
DoTransition_DecrementAtImplicit(s, transition_byte, ok) ==
  LET next == s.nodes[s.node].next_node
      node == next + (transition_byte \div 4)
  IN IF s.num_iters = 0
       THEN IF transition_byte = nullopt THEN DecodeDone(s, ok)
            ELSE [s EXCEPT !.node = node,
                           !.num_iters = (transition_byte % 4) +
                             (IF IsImplicit(s.nodes[node]) THEN 1 ELSE 0),
                           !.transitions = @ + 1,
                           !.extra = transition_byte % 4, !.ret = TRUE]
       ELSE [s EXCEPT !.node = next,
                      !.extra = IF IsImplicit(s.nodes[s.node]) \/ @ = 0
                                  THEN @ ELSE @ - 1,
                      !.num_iters = IF IsImplicit(s.nodes[next])
                                      THEN @ - 1 ELSE @,
                      !.implicit_transition =
                        @ \/ IsImplicit(s.nodes[s.node]),
                      !.ret = TRUE]

\* A faulty do_transition which does not add an iteration for an implicit
\* node reached by a transition byte.
DoTransition_NoIterationForImplicit(s, transition_byte, ok) ==
  LET next == s.nodes[s.node].next_node
      node == next + (transition_byte \div 4)
  IN IF s.num_iters = 0
       THEN IF transition_byte = nullopt THEN DecodeDone(s, ok)
            ELSE [s EXCEPT !.node = node,
                           !.num_iters = transition_byte % 4,
                           !.transitions = @ + 1,
                           !.extra = transition_byte % 4, !.ret = TRUE]
       ELSE [s EXCEPT !.node = next,
                      !.extra = IF IsImplicit(s.nodes[s.node]) \/ @ = 0
                                  THEN @ ELSE @ - 1,
                      !.num_iters = IF IsImplicit(s.nodes[next])
                                      THEN @ ELSE @ - 1,
                      !.implicit_transition =
                        @ \/ IsImplicit(s.nodes[s.node]),
                      !.ret = TRUE]

\* do_transition of Decode(): go to the next node; with num_iters = 0 read
\* a transition byte, or finish at the end of the stream.  extra is a
\* history of the run: the low two bits of the last transition byte read,
\* less the nodes which are not implicit left since without reading a byte
\* (0 when there are more of these).
DoTransition(s, transition_byte, ok) ==
  LET next == s.nodes[s.node].next_node
      node == next + (transition_byte \div 4)
  IN IF s.num_iters = 0
       THEN IF transition_byte = nullopt THEN DecodeDone(s, ok)
            ELSE [s EXCEPT !.node = node,
                           !.num_iters = (transition_byte % 4) +
                             (IF IsImplicit(s.nodes[node]) THEN 1 ELSE 0),
                           !.transitions = @ + 1,
                           !.extra = transition_byte % 4, !.ret = TRUE]
       ELSE [s EXCEPT !.node = next,
                      !.extra = IF IsImplicit(s.nodes[s.node]) \/ @ = 0
                                  THEN @ ELSE @ - 1,
                      !.num_iters = IF IsImplicit(s.nodes[next])
                                      THEN @ ELSE @ - 1,
                      !.implicit_transition =
                        @ \/ IsImplicit(s.nodes[s.node]),
                      !.ret = TRUE]

\* The beginning of TransposeDecoder::Decode.
DecodeBegin(s) ==
  [s EXCEPT !.pc = "Loop", !.node = s.first_node,
            !.num_iters = IF IsImplicit(s.nodes[s.first_node]) THEN 1 ELSE 0,
            !.ret = TRUE]

\* One iteration of the main loop of TransposeDecoder::Decode.
DecodeIteration(s, transition_byte, ok, field_included) ==
  LET type == s.nodes[s.node].callback_type
  IN IF type = "kSelectCallback"
       THEN SetCallbackType(s, field_included)
     ELSE IF type \in {"kUnknown", "kFailure"}
       THEN [Fail(s, "INVALID_ARGUMENT: Invalid node index")
               EXCEPT !.pc = "Done"]
     ELSE IF type = "kVarint" /\ ~ok
       THEN [Fail(s, "INVALID_ARGUMENT: Reading varint field failed")
               EXCEPT !.pc = "Done"]
     ELSE DoTransition(s, transition_byte, ok)

(***************************************************************************)
(* The decoder as a state machine: a chunk is parsed, then decoded one     *)
(* loop iteration at a time.                                               *)
(***************************************************************************)
TDNew(next_node_indices, tags, first_node_index, state_machine_size, header_entries) ==
  [pc |-> "Parse", healthy |-> TRUE, status |-> "OK", ret |-> TRUE,
   state_machine_size |-> state_machine_size,
   header_entries |-> header_entries, out_of_table |-> FALSE,
   next_node_indices |-> next_node_indices, tags |-> tags,
   first_node_index |-> first_node_index, transitions |-> 0,
   nodes |-> [i \in NodeIds |-> NewNode], first_node |-> 0,
   node |-> 0, num_iters |-> 0, implicit_transition |-> FALSE, extra |-> 0]

\* The headers considered: NumNodes nodes declared and held; or the largest
\* size declared, with NumNodes or all of the tags and next node indices
\* held, of which next_node_indices and tags are the first ones.
HeaderSizes ==
  {<<NumNodes, NumNodes>>, <<MaxStateMachineSize, NumNodes>>,
   <<MaxStateMachineSize, MaxStateMachineSize>>}

TDInit ==
  td \in {TDNew(n, t, f, h[1], h[2]) :
            n \in [0 .. (NumNodes - 1) -> NextNodeIndices],
            t \in [0 .. (NumNodes - 1) -> Tags],
            f \in FirstNodes, h \in HeaderSizes}

DoParse ==
  /\ td.pc = "Parse"
  /\ LET s == Parse(td)
     IN \/ td' = [s EXCEPT !.pc = IF s.ret THEN "Parsed" ELSE "Done"]
        \/ /\ s.out_of_table
           /\ td' = [s EXCEPT !.pc = "Crashed"]
  /\ UNCHANGED <<file, recovery, rr, pw, lw, dec, od, sc, bk, dw, ow, vl, dr, nc, hs, fw, io>>

DoDecodeBegin ==
  /\ td.pc = "Parsed"
  /\ td' = DecodeBegin(td)
  /\ UNCHANGED <<file, recovery, rr, pw, lw, dec, od, sc, bk, dw, ow, vl, dr, nc, hs, fw, io>>

DoDecodeIteration ==
  /\ td.pc = "Loop"
  /\ LET type == td.nodes[td.node].callback_type
     IN \E transition_byte \in
             IF type \in {"kNoOp", "kVarint"} /\ td.num_iters = 0
               THEN ReadByte(td.transitions) ELSE {nullopt},
           ok \in IF type = "kVarint" \/ td.num_iters = 0
                   THEN BOOLEAN ELSE {TRUE},
           field_included \in
             IF type = "kSelectCallback" THEN BOOLEAN ELSE {TRUE} :
          td' = DecodeIteration(td, transition_byte, ok, field_included)
  /\ UNCHANGED <<file, recovery, rr, pw, lw, dec, od, sc, bk, dw, ow, vl, dr, nc, hs, fw, io>>

TDNext ==
  \/ DoParse
  \/ DoDecodeBegin
  \/ DoDecodeIteration

(***************************************************************************)
(* LimitingBackwardWriter over a destination BackwardWriter.  Between two  *)
(* slow calls the limiting writer works in the buffer of the destination:  *)
(* start_pos, written (written_to_buffer()) and buf_size are its own       *)
(* buffer state; d_start_pos, d_written and d_size those of the            *)
(* destination, whose cursor is brought up to date by SyncBuffer().  Only  *)
(* the numbers of bytes are modelled.                                      *)
(***************************************************************************)
\* Largest size_limit considered.
MaxLimit == 2

LAvailable(s) == s.buf_size - s.written
LPos(s) == s.start_pos + s.written
DestPos(s) == s.d_start_pos + s.d_written

\* Object::Fail for the limiting writer, with BackwardWriter::OnFail, which
\* drops the buffer.
LimitingFail(s, st) ==
  [s EXCEPT !.healthy = FALSE,
            !.status = IF s.healthy THEN st ELSE s.status,
            !.written = 0, !.buf_size = 0, !.ret = FALSE]

\* LimitingBackwardWriterBase::SizeLimitExceeded.
SizeLimitExceeded(s) == LimitingFail(s, "RESOURCE_EXHAUSTED")

\* The destination fails: it drops its buffer.
DestFail(s) ==
  [s EXCEPT !.d_healthy = FALSE, !.d_written = 0, !.d_size = 0,
            !.ret = FALSE]

\* dest.Push(min_length, recommended_length): enough space is available, or
\* the destination provides a new buffer of k bytes, at least min_length, or
\* fails.
DestPush(s, min_length, k, dest_ok) ==
  IF ~s.d_healthy THEN [s EXCEPT !.ret = FALSE]
  ELSE IF s.d_size - s.d_written >= min_length THEN [s EXCEPT !.ret = TRUE]
  ELSE IF ~dest_ok THEN DestFail(s)
  ELSE [s EXCEPT !.d_start_pos = DestPos(s), !.d_written = 0,
                 !.d_size = IF k < min_length THEN min_length ELSE k,
                 !.ret = TRUE]

\* dest.Write(src) and dest.WriteZeros(length) of n bytes: into the buffer if
\* they fit; otherwise the destination takes them and goes on with a new
\* buffer of k bytes, or fails.
DestWrite(s, n, k, dest_ok) ==
  IF ~s.d_healthy THEN [s EXCEPT !.ret = FALSE]
  ELSE IF s.d_size - s.d_written >= n
    THEN [s EXCEPT !.d_written = @ + n, !.ret = TRUE]
  ELSE IF ~dest_ok THEN DestFail(s)
  ELSE [s EXCEPT !.d_start_pos = DestPos(s) + n, !.d_written = 0,
                 !.d_size = k, !.ret = TRUE]

\* dest.Truncate(new_size): false when new_size is past the position.
DestTruncate(s, new_size) ==
  IF ~s.d_healthy \/ new_size > DestPos(s) THEN [s EXCEPT !.ret = FALSE]
  ELSE [s EXCEPT !.d_start_pos = new_size, !.d_written = 0, !.d_size = 0,
                 !.ret = TRUE]

\* LimitingBackwardWriterBase::SyncBuffer: the cursor of the destination is
\* set to the cursor of the limiting writer; when the position is past the
\* size limit, to the size limit, and the limiting writer fails.
SyncBuffer(s) ==
  IF LPos(s) > s.size_limit
    THEN SizeLimitExceeded([s EXCEPT !.d_written =
                                       s.written - (LPos(s) - s.size_limit)])
    ELSE [s EXCEPT !.d_written = s.written, !.ret = TRUE]

\* LimitingBackwardWriterBase::MakeBuffer: the buffer of the destination
\* becomes the buffer of the limiting writer, which fails if the destination
\* failed.
MakeBuffer(s) ==
  LET s1 == [s EXCEPT !.start_pos = s.d_start_pos, !.written = s.d_written,
                      !.buf_size = s.d_size]
  IN IF ~s.d_healthy THEN LimitingFail(s1, "DEST_FAILED") ELSE s1

\* LimitingBackwardWriterBase::PushSlow.
LimitingPushSlow(s, min_length, k, dest_ok) ==
  IF ~s.healthy THEN [s EXCEPT !.ret = FALSE]
  ELSE LET s1 == SyncBuffer(s)
       IN IF ~s1.ret THEN s1
          ELSE LET s2 == DestPush(s1, min_length, k, dest_ok)
               IN [MakeBuffer(s2) EXCEPT !.ret = s2.ret]

\* LimitingBackwardWriterBase::WriteInternal.
WriteInternal(s, n, k, dest_ok) ==
  IF ~s.healthy THEN [s EXCEPT !.ret = FALSE]
  ELSE LET s1 == SyncBuffer(s)
       IN IF ~s1.ret THEN s1
          ELSE IF n > s1.size_limit - LPos(s1) THEN SizeLimitExceeded(s1)
          ELSE LET s2 == DestWrite(s1, n, k, dest_ok)
               IN [MakeBuffer(s2) EXCEPT !.ret = s2.ret]

\* LimitingBackwardWriterBase::WriteZerosSlow.
LimitingWriteZerosSlow(s, length, k, dest_ok) ==
  IF ~s.healthy THEN [s EXCEPT !.ret = FALSE]
  ELSE LET s1 == SyncBuffer(s)
       IN IF ~s1.ret THEN s1
          ELSE IF length > s1.size_limit - LPos(s1) THEN SizeLimitExceeded(s1)
          ELSE LET s2 == DestWrite(s1, length, k, dest_ok)
               IN [MakeBuffer(s2) EXCEPT !.ret = s2.ret]

\* LimitingBackwardWriterBase::Truncate.
LimitingTruncate(s, new_size) ==
  IF ~s.healthy THEN [s EXCEPT !.ret = FALSE]
  ELSE LET s1 == SyncBuffer(s)
       IN IF ~s1.ret THEN s1
          ELSE LET s2 == DestTruncate(s1, new_size)
               IN [MakeBuffer(s2) EXCEPT !.ret = s2.ret]

\* LimitingBackwardWriterBase::Done, with BackwardWriter::Done, which keeps
\* the position and drops the buffer.
LimitingDone(s) ==
  LET s1 == IF s.healthy THEN SyncBuffer(s) ELSE s
  IN [s1 EXCEPT !.start_pos = LPos(s1), !.written = 0, !.buf_size = 0]

\* BackwardWriter::Push.
LimitingPush(s, min_length, k, dest_ok) ==
  IF LAvailable(s) >= min_length THEN [s EXCEPT !.ret = TRUE]
  ELSE LimitingPushSlow(s, min_length, k, dest_ok)

\* BackwardWriter::Write(string_view): into the buffer when the bytes fit.
LimitingWrite(s, n, k, dest_ok) ==
  IF LAvailable(s) >= n THEN [s EXCEPT !.written = @ + n, !.ret = TRUE]
  ELSE WriteInternal(s, n, k, dest_ok)

\* BackwardWriter::WriteZeros.
LimitingWriteZeros(s, n, k, dest_ok) ==
  IF LAvailable(s) >= n THEN [s EXCEPT !.written = @ + n, !.ret = TRUE]
  ELSE LimitingWriteZerosSlow(s, n, k, dest_ok)

\* BackwardWriter::move_cursor: the caller has filled length bytes of the
\* available space.
MoveCursor(s, length) == [s EXCEPT !.written = @ + length, !.ret = TRUE]

\* Object::Close.
LimitingClose(s) ==
  LET s1 == LimitingDone(s) IN [s1 EXCEPT !.closed = TRUE, !.ret = s1.healthy]

\* The state at the start of a call.
LCall(s, op, arg) ==
  [s EXCEPT !.op = op, !.arg = arg, !.ret = FALSE,
            !.was_healthy = s.healthy, !.was_pos = LPos(s),
            !.was_dest_pos = IF LPos(s) > s.size_limit
                               THEN s.d_start_pos + s.size_limit - s.start_pos
                               ELSE s.d_start_pos + s.written]

\* LimitingBackwardWriter(&dest, size_limit) over a new destination.
LWNew(size_limit) ==
  [size_limit |-> size_limit, healthy |-> TRUE, status |-> "OK",
   closed |-> FALSE, start_pos |-> 0, written |-> 0, buf_size |-> 0,
   d_start_pos |-> 0, d_written |-> 0, d_size |-> 0, d_healthy |-> TRUE,
   op |-> "Init", arg |-> 0, ret |-> TRUE, was_healthy |-> TRUE,
   was_pos |-> 0, was_dest_pos |-> 0]

LWInit == lw \in {LWNew(l) : l \in 0..MaxLimit}

DoLimitingPush ==
  /\ ~lw.closed
  /\ \E min_length \in 1..MaxLen, k \in 1..MaxBuf, dest_ok \in BOOLEAN :
       lw' = LimitingPush(LCall(lw, "Push", min_length), min_length, k,
                          dest_ok)
  /\ UNCHANGED <<file, recovery, rr, pw, td, dec, od, sc, bk, dw, ow, vl, dr, nc, hs, fw, io>>

DoLimitingMoveCursor ==
  /\ ~lw.closed
  /\ \E length \in 1..MaxLen :
       /\ length <= LAvailable(lw)
       /\ lw' = MoveCursor(LCall(lw, "move_cursor", length), length)
  /\ UNCHANGED <<file, recovery, rr, pw, td, dec, od, sc, bk, dw, ow, vl, dr, nc, hs, fw, io>>

DoLimitingWrite ==
  /\ ~lw.closed
  /\ \E n \in 1..MaxLen, k \in 0..MaxBuf, dest_ok \in BOOLEAN :
       lw' = LimitingWrite(LCall(lw, "Write", n), n, k, dest_ok)
  /\ UNCHANGED <<file, recovery, rr, pw, td, dec, od, sc, bk, dw, ow, vl, dr, nc, hs, fw, io>>

DoLimitingWriteZeros ==
  /\ ~lw.closed
  /\ \E n \in 1..MaxLen, k \in 0..MaxBuf, dest_ok \in BOOLEAN :
       lw' = LimitingWriteZeros(LCall(lw, "WriteZeros", n), n, k, dest_ok)
  /\ UNCHANGED <<file, recovery, rr, pw, td, dec, od, sc, bk, dw, ow, vl, dr, nc, hs, fw, io>>

DoLimitingTruncate ==
  /\ ~lw.closed
  /\ \E new_size \in 0..MaxLimit :
       lw' = LimitingTruncate(LCall(lw, "Truncate", new_size), new_size)
  /\ UNCHANGED <<file, recovery, rr, pw, td, dec, od, sc, bk, dw, ow, vl, dr, nc, hs, fw, io>>

DoLimitingClose ==
  /\ ~lw.closed
  /\ lw' = LimitingClose(LCall(lw, "Close", 0))
  /\ UNCHANGED <<file, recovery, rr, pw, td, dec, od, sc, bk, dw, ow, vl, dr, nc, hs, fw, io>>

LWNext ==
  \/ DoLimitingPush
  \/ DoLimitingMoveCursor
  \/ DoLimitingWrite
  \/ DoLimitingWriteZeros
  \/ DoLimitingTruncate
  \/ DoLimitingClose

(***************************************************************************)
(* The callbacks of TransposeDecoder::Decode which use the submessage      *)
(* stack, the skipped submessage level and the position of the             *)
(* destination.  The state machine and the transitions stream decide which *)
(* node is executed next; here any callback type can follow any other.     *)
(* dest is what the BackwardWriter holds, in forward order, as a sequence  *)
(* of pieces: <<0, t>> is the tag_data of t bytes of a node, <<1, n>> are  *)
(* the n bytes of a field, and <<2, b1, .., bk>> are the bytes b1 .. bk    *)
(* WriteVarint32 wrote.  An entry of submessage_stack holds, besides       *)
(* end_of_submessage and tag_data, the history of its push: the callback   *)
(* type which pushed it (by) and the number of pieces of dest then         *)
(* (pieces).                                                               *)
(***************************************************************************)
\* The largest number of nodes executed.
MaxCallbacks == 5

\* tag_data of the nodes: a tag of 1 byte and a tag of 2 bytes.
SubTags == {1, 2}
\* Sizes of the fields written: 127 bytes make a submessage whose length
\* needs two varint bytes.
DataSizes == {1, 127}
CallbackTypes ==
  {"kSkippedSubmessageEnd", "kSkippedSubmessageStart", "kSubmessageEnd",
   "kSubmessageStart", "kCopyTag", "kStartProjectionGroup",
   "kEndProjectionGroup", "kMessageStart"}

PieceSize(piece) == IF piece[1] = 2 THEN Len(piece) - 1 ELSE piece[2]

\* WriteVarint32(data, char* dest): the bytes written.
RECURSIVE Varint32(_)
Varint32(data) ==
  IF data < 128 THEN <<data>>
  ELSE <<(data % 128) + 128>> \o Varint32(data \div 128)

\* BackwardWriter::Write and WriteVarint32(data, BackwardWriter&): the piece
\* is written before what dest holds.
DecWrite(s, piece) ==
  [s EXCEPT !.dest = <<piece>> \o @, !.dest_pos = @ + PieceSize(piece),
            !.ret = TRUE]

DecPush(s, tag, by) ==
  [s EXCEPT !.submessage_stack =
              Append(@, [end_of_submessage |-> s.dest_pos, tag_data |-> tag,
                         by |-> by, pieces |-> Len(s.dest)])]

DecPop(s) ==
  [s EXCEPT !.submessage_stack = SubSeq(@, 1, Len(@) - 1)]

\* case kSkippedSubmessageStart.
SkippedSubmessageStart(s) ==
  IF s.skipped_submessage_level = 0
    THEN Fail(s, "INVALID_ARGUMENT: Skipped submessage stack underflow")
    ELSE [s EXCEPT !.skipped_submessage_level = @ - 1, !.ret = TRUE]

\* A faulty kSubmessageStart which writes the position of dest as the length.
SubmessageStart_LengthIsPosition(s, dest_ok) ==
  IF s.submessage_stack = <<>>
    THEN Fail(s, "INVALID_ARGUMENT: Submessage stack underflow")
  ELSE
    LET elem == s.submessage_stack[Len(s.submessage_stack)]
        length == s.dest_pos
    IN IF ~dest_ok THEN Fail(s, "dest failed")
       ELSE DecPop(DecWrite(DecWrite(s, <<2>> \o Varint32(length)),
                            <<0, elem.tag_data>>))

\* case kSubmessageStart.
SubmessageStart(s, dest_ok) ==
  IF s.submessage_stack = <<>>
    THEN Fail(s, "INVALID_ARGUMENT: Submessage stack underflow")
  ELSE
    LET elem == s.submessage_stack[Len(s.submessage_stack)]
        length == s.dest_pos - elem.end_of_submessage
    IN IF ~dest_ok THEN Fail(s, "dest failed")
       ELSE DecPop(DecWrite(DecWrite(s, <<2>> \o Varint32(length)),
                            <<0, elem.tag_data>>))

\* A faulty kStartProjectionGroup which pops without looking at the stack.
StartProjectionGroup_NoUnderflowCheck(s, tag, dest_ok) ==
  IF ~dest_ok THEN Fail(DecPop(s), "dest failed")
  ELSE DecWrite(DecPop(s), <<0, tag>>)

\* case kStartProjectionGroup.
StartProjectionGroup(s, tag, dest_ok) ==
  IF s.submessage_stack = <<>>
    THEN Fail(s, "INVALID_ARGUMENT: Submessage stack underflow")
  ELSE IF ~dest_ok THEN Fail(DecPop(s), "dest failed")
  ELSE DecWrite(DecPop(s), <<0, tag>>)

\* The switch of the main loop of Decode() at a node of callback type type
\* with tag_data tag: a field node (kCopyTag) writes n bytes; dest_ok tells
\* whether dest takes what is written.  marks is the history of limits: the
\* number of pieces of dest at each kMessageStart.
DecodeCallback(s, type, tag, n, dest_ok) ==
  IF type = "kSkippedSubmessageEnd"
    THEN [s EXCEPT !.skipped_submessage_level = @ + 1, !.ret = TRUE]
  ELSE IF type = "kSkippedSubmessageStart" THEN SkippedSubmessageStart(s)
  ELSE IF type = "kSubmessageEnd"
    THEN [DecPush(s, tag, type) EXCEPT !.ret = TRUE]
  ELSE IF type = "kSubmessageStart" THEN SubmessageStart(s, dest_ok)
  ELSE IF type = "kCopyTag"
    THEN IF ~dest_ok THEN Fail(s, "dest failed")
         ELSE DecWrite(s, <<1, n>>)
  ELSE IF type = "kStartProjectionGroup"
    THEN StartProjectionGroup(s, tag, dest_ok)
  ELSE IF type = "kEndProjectionGroup"
    THEN IF ~dest_ok THEN Fail(DecPush(s, tag, type), "dest failed")
         ELSE DecWrite(DecPush(s, tag, type), <<0, tag>>)
  ELSE IF s.submessage_stack # <<>>
    THEN Fail(s, "INVALID_ARGUMENT: Submessages still open")
  ELSE IF Len(s.limits) = s.num_records
    THEN Fail(s, "INVALID_ARGUMENT: Too many records")
  ELSE [s EXCEPT !.limits = Append(@, s.dest_pos),
                 !.marks = Append(@, Len(s.dest)), !.ret = TRUE]

\* A faulty loop which reverses limits without complementing them.
ReverseLimits_NoComplement(limits, first, last, size) ==
  [i \in 1 .. Len(limits) |->
     IF i < Len(limits) THEN limits[Len(limits) - i] ELSE limits[i]]

\* The loop at the end of Decode() which reverses limits and complements
\* them, with the iterators first and last as offsets from limits.begin();
\* last has been decremented once.
RECURSIVE ReverseLimits(_, _, _, _)
ReverseLimits(limits, first, last, size) ==
  IF first < last
    THEN LET last1 == last - 1
             tmp == size - limits[first + 1]
             limits1 == [limits EXCEPT ![first + 1] = size - limits[last1 + 1]]
         IN ReverseLimits([limits1 EXCEPT ![last1 + 1] = tmp], first + 1,
                          last1, size)
    ELSE limits

\* done: of Decode(), at the end of the transitions stream; ok tells
\* whether transitions.VerifyEndAndClose() succeeds.
DecodeEnd(s, ok) ==
  LET size == IF s.limits = <<>> THEN 0 ELSE s.limits[Len(s.limits)]
  IN IF ~ok THEN Fail(s, "INVALID_ARGUMENT: End of data expected")
     ELSE IF s.submessage_stack # <<>>
       THEN Fail(s, "INVALID_ARGUMENT: Submessages still open")
     ELSE IF s.skipped_submessage_level # 0
       THEN Fail(s, "INVALID_ARGUMENT: Skipped submessages still open")
     ELSE IF Len(s.limits) # s.num_records
       THEN Fail(s, "INVALID_ARGUMENT: Too few records")
     ELSE IF size # s.dest_pos
       THEN Fail(s, "INVALID_ARGUMENT: Unfinished message")
     ELSE IF s.limits = <<>> THEN [s EXCEPT !.ret = TRUE]
     ELSE [s EXCEPT !.limits = ReverseLimits(@, 0, Len(@) - 1, size),
                    !.ret = TRUE]

\* The largest num_records of a chunk.
MaxNumRecords == 3

\* The locals of Decode() before the main loop.
DecNew(num_records) ==
  [pc |-> "Loop", healthy |-> TRUE, status |-> "OK", ret |-> TRUE,
   num_records |-> num_records,
   submessage_stack |-> <<>>, skipped_submessage_level |-> 0,
   dest |-> <<>>, dest_pos |-> 0, limits |-> <<>>, marks |-> <<>>,
   op |-> "Init", callbacks |-> 0]

DecInit == dec \in {DecNew(num_records) : num_records \in 0 .. MaxNumRecords}

DoCallback ==
  /\ dec.pc = "Loop"
  /\ dec.callbacks < MaxCallbacks
  /\ \E type \in CallbackTypes :
       \E tag \in IF type \in {"kSubmessageEnd", "kStartProjectionGroup",
                               "kEndProjectionGroup"}
                    THEN SubTags ELSE {1},
          n \in IF type = "kCopyTag" THEN DataSizes ELSE {1},
          dest_ok \in IF type \in {"kSubmessageStart", "kCopyTag",
                                   "kStartProjectionGroup",
                                   "kEndProjectionGroup"}
                        THEN BOOLEAN ELSE {TRUE} :
         LET s == DecodeCallback(dec, type, tag, n, dest_ok)
         IN dec' = [s EXCEPT !.op = type, !.callbacks = @ + 1,
                             !.pc = IF s.ret THEN "Loop" ELSE "Done"]
  /\ UNCHANGED <<file, recovery, rr, pw, td, lw, od, sc, bk, dw, ow, vl, dr, nc, hs, fw, io>>

DoDecodeEnd ==
  /\ dec.pc = "Loop"
  /\ \E ok \in BOOLEAN :
       dec' = [DecodeEnd(dec, ok) EXCEPT !.op = "done", !.pc = "Done"]
  /\ UNCHANGED <<file, recovery, rr, pw, td, lw, od, sc, bk, dw, ow, vl, dr, nc, hs, fw, io>>

DecNext ==
  \/ DoCallback
  \/ DoDecodeEnd

(***************************************************************************)
(* TransposeDecoder::Decode(num_records, decoded_data_size,                *)
(* field_projection, src, dest, limits): the checks of the arguments,      *)
(* Parse() with the tree of included fields it builds from the field       *)
(* projection, the decoding into a LimitingBackwardWriter over dest, and   *)
(* the checks after it.  A field projection is a sequence of paths, a path *)
(* a sequence of field numbers, where kExistenceOnly may stand for a field *)
(* number.  Of the decoding only the bytes written to limiting_dest and    *)
(* its result are modelled; emitted counts the bytes written.              *)
(***************************************************************************)
\* Field::kExistenceOnly.
kExistenceOnly == 0

\* kInvalidPos, the id of the root of the tree of included fields.
kInvalidPos == 0 - 1

\* limits.max_size(), scaled down.
LimitsMaxSize == 2

\* The largest number of paths of a field projection.
MaxFields == 2

\* The largest number of writes of a decoding.
MaxWrites == 3

\* The paths of the field projections considered.
ProjectionPaths ==
  {<<>>, <<1>>, <<2>>, <<1, 2>>, <<0>>, <<1, 0>>, <<1, 2, 0>>, <<0, 1>>,
   <<1, 0, 2>>}

FieldProjections ==
  UNION {[1 .. n -> ProjectionPaths] : n \in 0 .. MaxFields}

\* FieldProjection::includes_all(): some path is empty.
IncludesAll(fields) == \E j \in 1 .. Len(fields) : fields[j] = <<>>

\* std::min on Context::IncludeType: kIncludeFully < kIncludeChild <
\* kExistenceOnly.
MinIncludeType(a, b) ==
  IF a = "kIncludeFully" \/ b = "kIncludeFully" THEN "kIncludeFully"
  ELSE IF a = "kIncludeChild" \/ b = "kIncludeChild" THEN "kIncludeChild"
  ELSE "kExistenceOnly"

\* The loop of Parse() over the field numbers path[i] of a path, i in
\* 0 .. path_len - 1, which adds them to include_fields, a function from
\* <<id of the parent, field number>> to the id and the include type of the
\* field.  ret = FALSE when Parse() returns false.
RECURSIVE IncludePath(_, _, _, _, _, _)
IncludePath(include_fields, path, path_len, existence_only, i, current_id) ==
  IF i >= path_len THEN [ret |-> TRUE, include_fields |-> include_fields]
  ELSE
    LET field_number == path[i + 1]
        next_id == Cardinality(DOMAIN include_fields)
        include_type ==
          IF i + 1 = path_len
            THEN IF existence_only THEN "kExistenceOnly" ELSE "kIncludeFully"
            ELSE "kIncludeChild"
        key == <<current_id, field_number>>
        emplaced ==
          IF key \in DOMAIN include_fields THEN include_fields
          ELSE include_fields @@
                 (key :> [field_id |-> next_id, include_type |-> include_type])
    IN IF field_number = kExistenceOnly
         THEN [ret |-> FALSE, include_fields |-> include_fields]
         ELSE IncludePath([emplaced EXCEPT ![key].include_type =
                                             MinIncludeType(@, include_type)],
                          path, path_len, existence_only, i + 1,
                          emplaced[key].field_id)

\* The loop of Parse() over field_projection.fields(), from the j-th on.
RECURSIVE IncludeFields(_, _, _)
IncludeFields(fields, j, include_fields) ==
  IF j > Len(fields)
    THEN [ret |-> TRUE, projection_enabled |-> TRUE,
          include_fields |-> include_fields]
  ELSE IF fields[j] = <<>>
    THEN [ret |-> TRUE, projection_enabled |-> FALSE,
          include_fields |-> include_fields]
  ELSE
    LET path == fields[j]
        existence_only == path[Len(path)] = kExistenceOnly
        path_len == IF existence_only THEN Len(path) - 1 ELSE Len(path)
        Included(r) ==
          IF ~r.ret
            THEN [ret |-> FALSE, projection_enabled |-> TRUE,
                  include_fields |-> r.include_fields]
            ELSE IncludeFields(fields, j + 1, r.include_fields)
    IN IF path_len = 0 THEN IncludeFields(fields, j + 1, include_fields)
       ELSE Eval(IncludePath(include_fields, path, path_len, existence_only,
                             0, kInvalidPos),
                 Included)

\* The beginning of Decode() up to the call of the decoding proper: the
\* checks of num_records and Parse().  parsed is "OK" or the status with
\* which Parse() fails while it reads src.
DecodeParse(s, parsed) ==
  IF s.num_records > LimitsMaxSize
    THEN Fail(s, "RESOURCE_EXHAUSTED: Too many records")
  ELSE
    LET Parsed(p) ==
          IF ~p.ret THEN [s EXCEPT !.ret = FALSE]
          ELSE IF parsed # "OK" THEN Fail(s, parsed)
          ELSE [s EXCEPT !.projection_enabled = p.projection_enabled,
                         !.include_fields = p.include_fields, !.ret = TRUE]
    IN Eval(IncludeFields(s.fields, 1, <<>>), Parsed)

\* Decode() when the decoding proper returned false: limiting_dest is closed.
DecodeFailed(s) == [s EXCEPT !.w = LimitingClose(s.w), !.ret = FALSE]

\* A callback of the decoding proper writes n bytes to limiting_dest, with
\* Write() or with Push() and move_cursor(); if that fails the decoding
\* fails with the status of limiting_dest.
DecodeWrite(s, by, n, k, dest_ok) ==
  LET Written(w) ==
        IF w.ret THEN [s EXCEPT !.w = w, !.emitted = @ + n, !.ret = TRUE]
        ELSE DecodeFailed(Fail([s EXCEPT !.w = w], w.status))
      Pushed(w) == IF w.ret THEN MoveCursor(w, n) ELSE w
  IN IF by = "Write" THEN Eval(LimitingWrite(s.w, n, k, dest_ok), Written)
     ELSE Eval(Eval(LimitingPush(s.w, n, k, dest_ok), Pushed), Written)

\* A faulty end of Decode() which does not compare the sizes.
DecodeFinish_SizeNotCompared(s) ==
  LET Closed(w) ==
        IF ~w.ret THEN Fail([s EXCEPT !.w = w], w.status)
        ELSE [s EXCEPT !.w = w, !.ret = TRUE]
  IN Eval(LimitingClose(s.w), Closed)

\* The end of Decode() when the decoding proper returned true.
DecodeFinish(s) ==
  LET Closed(w) ==
        IF ~w.ret THEN Fail([s EXCEPT !.w = w], w.status)
        ELSE IF IncludesAll(s.fields) /\ DestPos(w) # s.decoded_data_size
          THEN Fail([s EXCEPT !.w = w],
                    "INVALID_ARGUMENT: Decoded data size smaller than expected")
        ELSE [s EXCEPT !.w = w, !.ret = TRUE]
  IN Eval(LimitingClose(s.w), Closed)

\* The decoder of a call of Decode(): Object::Reset(kInitiallyOpen).
ODNew(num_records, decoded_data_size, fields) ==
  [pc |-> "Parse", healthy |-> TRUE, status |-> "OK", ret |-> TRUE,
   num_records |-> num_records, decoded_data_size |-> decoded_data_size,
   fields |-> fields, projection_enabled |-> TRUE, include_fields |-> <<>>,
   w |-> LWNew(decoded_data_size), emitted |-> 0, writes |-> 0]

ODInit ==
  od \in {ODNew(num_records, decoded_data_size, fields) :
            num_records \in {1, LimitsMaxSize + 1},
            decoded_data_size \in 0 .. MaxLimit,
            fields \in FieldProjections}

\* The statuses with which Parse() fails while it reads src.
ParseStatuses ==
  {"INVALID_ARGUMENT: Reading header failed",
   "RESOURCE_EXHAUSTED: Too many buckets"}

DoDecodeParse ==
  /\ od.pc = "Parse"
  /\ \E parsed \in {"OK"} \cup ParseStatuses :
       LET s == DecodeParse(od, parsed)
       IN od' = [s EXCEPT !.pc = IF s.ret THEN "Decode" ELSE "Done"]
  /\ UNCHANGED <<file, recovery, rr, pw, td, lw, dec, sc, bk, dw, ow, vl, dr, nc, hs, fw, io>>

DoDecodeWrite ==
  /\ od.pc = "Decode"
  /\ od.writes < MaxWrites
  /\ \E by \in {"Write", "Push"}, n \in 1 .. MaxLen, k \in 0 .. MaxBuf,
        dest_ok \in BOOLEAN :
       LET s == DecodeWrite(od, by, n, k, dest_ok)
       IN od' = [s EXCEPT !.writes = @ + 1,
                          !.pc = IF s.ret THEN "Decode" ELSE "Done"]
  /\ UNCHANGED <<file, recovery, rr, pw, td, lw, dec, sc, bk, dw, ow, vl, dr, nc, hs, fw, io>>

\* The decoding proper fails at one of its own checks.
DoDecodeFail ==
  /\ od.pc = "Decode"
  /\ od' = [DecodeFailed(Fail(od, "INVALID_ARGUMENT: Too few records"))
              EXCEPT !.pc = "Done"]
  /\ UNCHANGED <<file, recovery, rr, pw, td, lw, dec, sc, bk, dw, ow, vl, dr, nc, hs, fw, io>>

DoDecodeFinish ==
  /\ od.pc = "Decode"
  /\ od' = [DecodeFinish(od) EXCEPT !.pc = "Done"]
  /\ UNCHANGED <<file, recovery, rr, pw, td, lw, dec, sc, bk, dw, ow, vl, dr, nc, hs, fw, io>>

ODNext ==
  \/ DoDecodeParse
  \/ DoDecodeWrite
  \/ DoDecodeFail
  \/ DoDecodeFinish

(***************************************************************************)
(* The resolution of kSelectCallback nodes against the field projection    *)
(* (transpose_decoder.cc).  A node is given by the field number of its tag *)
(* and by its kind; the decoded bytes are left to DecodeCallback, and of   *)
(* the destination only the outcome of the last node is kept.              *)
(***************************************************************************)
\* The largest depth of open submessages and groups.
MaxDepth == 2

\* Kinds of nodes: a varint or fixed width field, a string, the end of a
\* submessage (a length delimited tag with subtype
\* kLengthDelimitedEndOfSubmessage), MessageId::kStartOfSubmessage, and the
\* tags of a group.
ValueKinds == {"kVarint", "kString"}
NodeKinds ==
  ValueKinds \cup
    {"kEndOfSubmessage", "kStartOfSubmessage", "kStartGroup", "kEndGroup"}

\* GetCallbackType(): the callback of a node with a tag.
GetCallbackType(field_included, kind, projection_enabled) ==
  CASE field_included = "kYes" ->
         (CASE kind = "kVarint" -> "kVarint"
            [] kind = "kString" -> "kString"
            [] kind = "kEndOfSubmessage" -> "kSubmessageEnd"
            [] kind = "kStartGroup" ->
                 IF projection_enabled THEN "kStartProjectionGroup"
                 ELSE "kCopyTag"
            [] kind = "kEndGroup" ->
                 IF projection_enabled THEN "kEndProjectionGroup"
                 ELSE "kCopyTag"
            [] OTHER -> "kUnknown")
    [] field_included = "kNo" ->
         (CASE kind \in ValueKinds -> "kNoOp"
            [] kind = "kEndOfSubmessage" -> "kSkippedSubmessageEnd"
            [] kind = "kStartGroup" -> "kSkippedSubmessageStart"
            [] kind = "kEndGroup" -> "kSkippedSubmessageEnd"
            [] OTHER -> "kUnknown")
    [] field_included = "kExistenceOnly" ->
         (CASE kind = "kVarint" -> "kCopyTag"
            [] kind = "kString" -> "kCopyTag"
            [] kind = "kEndOfSubmessage" -> "kSubmessageEnd"
            [] kind = "kStartGroup" -> "kStartProjectionGroup"
            [] kind = "kEndGroup" -> "kEndProjectionGroup"
            [] OTHER -> "kUnknown")

\* The loop of SetCallbackType() over the elements of submessage_stack, from
\* the k-th on, each given by the field number of its tag.
RECURSIVE IncludedByStack(_, _, _, _)
IncludedByStack(include_fields, submessage_stack, k, field_id) ==
  IF k > Len(submessage_stack)
    THEN [field_included |-> "kExistenceOnly", field_id |-> field_id]
  ELSE
    LET key == <<field_id, submessage_stack[k]>>
    IN IF key \notin DOMAIN include_fields
         THEN [field_included |-> "kNo", field_id |-> field_id]
       ELSE IF include_fields[key].include_type = "kIncludeFully"
         THEN [field_included |-> "kYes", field_id |-> field_id]
       ELSE IncludedByStack(include_fields, submessage_stack, k + 1,
                            include_fields[key].field_id)

\* A faulty SetCallbackType() for which a field with included children only
\* is not included itself.
FieldIncluded_ChildrenOnlyExcluded(include_fields, skipped_submessage_level, submessage_stack, field_number, kind) ==
  LET by_stack ==
        IF skipped_submessage_level = 0
          THEN IncludedByStack(include_fields, submessage_stack, 1, kInvalidPos)
          ELSE [field_included |-> "kNo", field_id |-> kInvalidPos]
      key == <<by_stack.field_id, field_number>>
  IN IF kind # "kStartGroup" /\ by_stack.field_included = "kExistenceOnly"
       THEN IF key \notin DOMAIN include_fields THEN "kNo"
            ELSE IF include_fields[key].include_type = "kIncludeFully"
              THEN "kYes"
            ELSE IF include_fields[key].include_type = "kIncludeChild"
              THEN "kNo"
            ELSE "kExistenceOnly"
       ELSE by_stack.field_included

\* field_included as SetCallbackType() computes it for a node with a tag.
FieldIncluded(include_fields, skipped_submessage_level, submessage_stack, field_number, kind) ==
  LET by_stack ==
        IF skipped_submessage_level = 0
          THEN IncludedByStack(include_fields, submessage_stack, 1, kInvalidPos)
          ELSE [field_included |-> "kNo", field_id |-> kInvalidPos]
      key == <<by_stack.field_id, field_number>>
  IN IF kind # "kStartGroup" /\ by_stack.field_included = "kExistenceOnly"
       THEN IF key \notin DOMAIN include_fields THEN "kNo"
            ELSE IF include_fields[key].include_type
                      \in {"kIncludeFully", "kIncludeChild"}
              THEN "kYes"
            ELSE "kExistenceOnly"
       ELSE by_stack.field_included

\* SetCallbackType(): the callback type given to a kSelectCallback node.
SetCallbackTypeOfNode(s, field_number, kind) ==
  IF kind = "kStartOfSubmessage"
    THEN IF s.skipped_submessage_level > 0 THEN "kSkippedSubmessageStart"
         ELSE "kSubmessageStart"
    ELSE GetCallbackType(
           FieldIncluded(s.include_fields, s.skipped_submessage_level,
                         s.submessage_stack, field_number, kind),
           kind, TRUE)

\* The callback type which Parse() gives to a node without projection.
ParseCallbackType(kind) ==
  IF kind = "kStartOfSubmessage" THEN "kSubmessageStart"
  ELSE GetCallbackType("kYes", kind, FALSE)

\* The cases of the loop of Decode() for a callback type, as far as
\* submessage_stack and skipped_submessage_level go.
SelectedCallback(s, callback_type, field_number) ==
  CASE callback_type = "kSkippedSubmessageEnd" ->
         [s EXCEPT !.skipped_submessage_level = @ + 1]
    [] callback_type = "kSkippedSubmessageStart" ->
         IF s.skipped_submessage_level = 0
           THEN Fail(s, "INVALID_ARGUMENT: Skipped submessage stack underflow")
           ELSE [s EXCEPT !.skipped_submessage_level = @ - 1]
    [] callback_type \in {"kSubmessageEnd", "kEndProjectionGroup"} ->
         [s EXCEPT !.submessage_stack = Append(@, field_number)]
    [] callback_type \in {"kSubmessageStart", "kStartProjectionGroup"} ->
         IF s.submessage_stack = <<>>
           THEN Fail(s, "INVALID_ARGUMENT: Submessage stack underflow")
           ELSE [s EXCEPT !.submessage_stack = SubSeq(@, 1, Len(@) - 1)]
    [] OTHER -> s

NoNode == [path |-> <<>>, kind |-> "none", callback_type |-> "none"]

\* The decoding at its beginning, after Parse() of a field projection.
\* open lists the submessages and groups entered and not yet left, skipped
\* ones too; node is the last node met.
SCNew(fields) ==
  LET Parsed(p) ==
        [healthy |-> TRUE, status |-> "OK", fields |-> fields, ret |-> p.ret,
         projection_enabled |-> p.projection_enabled,
         include_fields |-> p.include_fields, submessage_stack |-> <<>>,
         skipped_submessage_level |-> 0, open |-> <<>>, node |-> NoNode]
  IN Eval(IncludeFields(fields, 1, <<>>), Parsed)

SCInit == sc \in {SCNew(fields) : fields \in FieldProjections}

OpenPath(open) == [i \in 1 .. Len(open) |-> open[i].field_number]

\* The decoder meets a node of a record: a field, the end of a submessage or
\* of a group (the record is decoded backwards), or the start of the
\* innermost open one.
DoNode ==
  /\ sc.ret /\ sc.healthy
  /\ \E field_number \in SubTags, kind \in NodeKinds :
       LET n == Len(sc.open)
           starts == kind \in {"kStartOfSubmessage", "kStartGroup"}
           ends == kind \in {"kEndOfSubmessage", "kEndGroup"}
           callback_type ==
             IF sc.projection_enabled
               THEN SetCallbackTypeOfNode(sc, field_number, kind)
               ELSE ParseCallbackType(kind)
           path ==
             IF starts THEN OpenPath(sc.open)
             ELSE Append(OpenPath(sc.open), field_number)
           open1 ==
             IF starts THEN SubSeq(sc.open, 1, n - 1)
             ELSE IF ends
               THEN Append(sc.open, [field_number |-> field_number,
                                     group |-> kind = "kEndGroup"])
             ELSE sc.open
       IN /\ ends => n < MaxDepth
          /\ starts =>
               /\ n > 0
               /\ sc.open[n].field_number = field_number
               /\ sc.open[n].group = (kind = "kStartGroup")
          /\ sc' = [SelectedCallback(sc, callback_type, field_number)
                      EXCEPT !.open = open1,
                             !.node = [path |-> path, kind |-> kind,
                                       callback_type |-> callback_type]]
  /\ UNCHANGED <<file, recovery, rr, pw, td, lw, dec, od, bk, dw, ow, vl, dr, nc, hs, fw, io>>

SCNext == DoNode

(***************************************************************************)
(* The buckets and buffers of a transposed chunk: ParseBuffers(),          *)
(* ParseBuffersForFiltering() and GetBuffer() (transpose_decoder.cc).      *)
(* A buffer is given by its length.  A bucket of src is given by the       *)
(* uncompressed size which its compressed data declares and by what is     *)
(* wrong with the data: "size": the declared size cannot be read;          *)
(* "reset": a decompressor cannot be made for it; "read": the data end one *)
(* byte early; "end": the end of the data does not verify.                 *)
(***************************************************************************)
\* The largest number of buffer lengths in a header.
MaxBuffers == 2

\* max_size() of the vectors of buckets and of buffers.
VectorMaxSize == 2

BufferLengths == {0, 1, 2}
Faults == {"none", "size", "reset", "read", "end"}

Chain(uncompressed_size, fault) ==
  [size |-> 1, uncompressed_size |-> uncompressed_size, fault |-> fault]

\* Chain(): no data.
EmptyChain == [size |-> 0, uncompressed_size |-> 0, fault |-> "none"]

\* internal::UncompressedSize().
UncompressedSize(compressed_data) ==
  IF compressed_data.fault = "size" THEN nullopt
  ELSE compressed_data.uncompressed_size

\* The number of bytes which a decompressor reads from the data.
DataSize(compressed_data) ==
  IF compressed_data.fault = "read" /\ compressed_data.uncompressed_size > 0
    THEN compressed_data.uncompressed_size - 1
    ELSE compressed_data.uncompressed_size

\* healthy() of a decompressor made for the data.
DecompressorHealthy(compressed_data) ==
  compressed_data.fault \notin {"size", "reset"}

\* VerifyEndAndClose() of a decompressor which has read n bytes of the data.
VerifyEndAndClose(compressed_data, n) ==
  /\ compressed_data.fault # "end"
  /\ n = compressed_data.uncompressed_size

\* DataBucket.  num_buffers counts the buffers which the header puts into
\* the bucket; read is the position of the decompressor's reader.
DataBucket(compressed_data) ==
  [compressed_data |-> compressed_data, buffer_sizes |-> <<>>,
   buffers |-> <<>>, read |-> 0, num_buffers |-> 0]

\* The loop of ParseBuffersForFiltering() over the buckets which follow a
\* bucket with nothing left.  c = [bucket_index, remaining_bucket_size,
\* first_buffer_indices].
RECURSIVE NextBucket(_, _, _, _)
NextBucket(buckets, num_buckets, buffer_index, c) ==
  IF c.remaining_bucket_size = 0 /\ c.bucket_index + 1 < num_buckets
    THEN NextBucket(
           buckets, num_buckets, buffer_index,
           [bucket_index |-> c.bucket_index + 1,
            remaining_bucket_size |->
              UncompressedSize(buckets[c.bucket_index + 2].compressed_data),
            first_buffer_indices |->
              Append(c.first_buffer_indices, buffer_index + 1)])
    ELSE c

\* The loop of ParseBuffersForFiltering() over the buffers, from
\* buffer_index on.
RECURSIVE FilteringBuffers(_, _, _, _)
FilteringBuffers(s, buffer_index, c, bucket_indices) ==
  IF c.remaining_bucket_size = nullopt
    THEN Fail(s, "INVALID_ARGUMENT: Reading uncompressed size failed")
  ELSE IF buffer_index >= s.header.num_buffers
    THEN IF c.bucket_index + 1 < s.header.num_buckets
           THEN Fail(s, "INVALID_ARGUMENT: Too few buckets")
         ELSE IF c.remaining_bucket_size > 0
           THEN Fail(s, "INVALID_ARGUMENT: End of data expected")
         ELSE [s EXCEPT !.first_buffer_indices = c.first_buffer_indices,
                        !.bucket_indices = bucket_indices, !.ret = TRUE]
  ELSE IF buffer_index >= Len(s.header.buffer_lengths)
    THEN Fail(s, "INVALID_ARGUMENT: Reading buffer length failed")
  ELSE
    LET buffer_length == s.header.buffer_lengths[buffer_index + 1]
        s1 == [s EXCEPT
                 !.buckets[c.bucket_index + 1].buffer_sizes =
                   Append(@, buffer_length),
                 !.buckets[c.bucket_index + 1].num_buffers = @ + 1]
    IN IF buffer_length > c.remaining_bucket_size
         THEN Fail(s1, "INVALID_ARGUMENT: Buffer does not fit in bucket")
         ELSE FilteringBuffers(
                s1, buffer_index + 1,
                NextBucket(s1.buckets, s.header.num_buckets, buffer_index,
                           [c EXCEPT !.remaining_bucket_size =
                                       @ - buffer_length]),
                Append(bucket_indices, c.bucket_index))

\* ParseBuffersForFiltering().
ParseBuffersForFiltering(s) ==
  IF s.header.num_buckets > VectorMaxSize
    THEN Fail(s, "RESOURCE_EXHAUSTED: Too many buckets")
  ELSE IF s.header.num_buffers > VectorMaxSize
    THEN Fail(s, "RESOURCE_EXHAUSTED: Too many buffers")
  ELSE IF s.header.num_buckets = 0
    THEN IF s.header.num_buffers # 0
           THEN Fail(s, "INVALID_ARGUMENT: Too few buckets")
           ELSE [s EXCEPT !.ret = TRUE]
  ELSE IF Len(s.src) < s.header.num_buckets
    THEN Fail(s, "INVALID_ARGUMENT: Reading bucket failed")
  ELSE
    LET buckets == [i \in 1 .. s.header.num_buckets |-> DataBucket(s.src[i])]
    IN FilteringBuffers(
         [s EXCEPT !.buckets = buckets], 0,
         [bucket_index |-> 0,
          remaining_bucket_size |-> UncompressedSize(s.src[1]),
          first_buffer_indices |-> <<0>>],
         <<>>)

\* The loop of ParseBuffers() over the buckets, from the i-th on: TRUE when
\* all are read and their decompressors healthy.
RECURSIVE BucketDecompressors(_, _)
BucketDecompressors(s, i) ==
  IF i > s.header.num_buckets THEN [s EXCEPT !.ret = TRUE]
  ELSE IF Len(s.src) < i
    THEN Fail(s, "INVALID_ARGUMENT: Reading bucket failed")
  ELSE IF ~DecompressorHealthy(s.src[i])
    THEN Fail(s, "INVALID_ARGUMENT: Invalid compressed data")
  ELSE BucketDecompressors(s, i + 1)

\* The loop of ParseBuffers() which leaves the buckets whose readers have
\* nothing to pull.  c = [bucket_index, read, ok].
RECURSIVE PulledBucket(_, _)
PulledBucket(s, c) ==
  IF /\ c.read >= DataSize(s.src[c.bucket_index + 1])
     /\ c.bucket_index + 1 < s.header.num_buckets
    THEN IF ~VerifyEndAndClose(s.src[c.bucket_index + 1], c.read)
           THEN [c EXCEPT !.ok = FALSE]
           ELSE PulledBucket(s, [c EXCEPT !.bucket_index = @ + 1, !.read = 0])
    ELSE c

\* The loop of ParseBuffers() over the buffers, from buffer_index on.
RECURSIVE Buffers(_, _, _)
Buffers(s, buffer_index, c) ==
  IF ~c.ok THEN Fail(s, "INVALID_ARGUMENT: Invalid compressed data")
  ELSE IF buffer_index >= s.header.num_buffers
    THEN IF c.bucket_index + 1 < s.header.num_buckets
           THEN Fail(s, "INVALID_ARGUMENT: Too few buckets")
         ELSE IF ~VerifyEndAndClose(s.src[c.bucket_index + 1], c.read)
           THEN Fail(s, "INVALID_ARGUMENT: Invalid compressed data")
         ELSE [s EXCEPT !.ret = TRUE]
  ELSE IF buffer_index >= Len(s.header.buffer_lengths)
    THEN Fail(s, "INVALID_ARGUMENT: Reading buffer length failed")
  ELSE
    LET buffer_length == s.header.buffer_lengths[buffer_index + 1]
    IN IF c.read + buffer_length > DataSize(s.src[c.bucket_index + 1])
         THEN Fail(s, "INVALID_ARGUMENT: Reading buffer failed")
         ELSE Buffers([s EXCEPT !.buffers = Append(@, buffer_length)],
                      buffer_index + 1,
                      PulledBucket(s, [c EXCEPT !.read = @ + buffer_length]))

\* ParseBuffers().
ParseBuffers(s) ==
  IF s.header.num_buffers > VectorMaxSize
    THEN Fail(s, "INVALID_ARGUMENT: Too many buffers")
  ELSE IF s.header.num_buckets = 0
    THEN IF s.header.num_buffers # 0
           THEN Fail(s, "INVALID_ARGUMENT: Too few buckets")
           ELSE [s EXCEPT !.ret = TRUE]
  ELSE IF s.header.num_buckets > VectorMaxSize
    THEN Fail(s, "RESOURCE_EXHAUSTED: Too many buckets")
  ELSE
    LET Read(s1) ==
          IF ~s1.ret THEN s1
          ELSE Buffers(s1, 0, [bucket_index |-> 0, read |-> 0, ok |-> TRUE])
    IN Eval(BucketDecompressors(s, 1), Read)

\* A faulty GetBuffer() which keeps the compressed data of the bucket.
RECURSIVE GetBuffer_DataKept(_, _, _)
GetBuffer_DataKept(s, bucket_index, index_within_bucket) ==
  LET bucket == s.buckets[bucket_index + 1]
      size == bucket.buffer_sizes[Len(bucket.buffers) + 1]
      s1 == [s EXCEPT !.buckets[bucket_index + 1].buffers = Append(@, size),
                      !.buckets[bucket_index + 1].read = @ + size]
  IN IF index_within_bucket < Len(bucket.buffers) THEN [s EXCEPT !.ret = TRUE]
     ELSE IF bucket.buffers = <<>>
             /\ ~DecompressorHealthy(bucket.compressed_data)
       THEN Fail(s, "INVALID_ARGUMENT: Invalid compressed data")
     ELSE IF bucket.read + size > DataSize(bucket.compressed_data)
       THEN Fail(s, "INVALID_ARGUMENT: Reading buffer failed")
     ELSE IF Len(bucket.buffers) + 1 = Len(bucket.buffer_sizes)
       THEN IF ~VerifyEndAndClose(bucket.compressed_data, bucket.read + size)
              THEN Fail(s1, "INVALID_ARGUMENT: Invalid compressed data")
              ELSE [s1 EXCEPT !.ret = TRUE]
     ELSE GetBuffer_DataKept(s1, bucket_index, index_within_bucket)

\* GetBuffer(): ret = FALSE when it returns nullptr.
RECURSIVE GetBuffer(_, _, _)
GetBuffer(s, bucket_index, index_within_bucket) ==
  LET bucket == s.buckets[bucket_index + 1]
      size == bucket.buffer_sizes[Len(bucket.buffers) + 1]
      s1 == [s EXCEPT !.buckets[bucket_index + 1].buffers = Append(@, size),
                      !.buckets[bucket_index + 1].read = @ + size]
  IN IF index_within_bucket < Len(bucket.buffers) THEN [s EXCEPT !.ret = TRUE]
     ELSE IF bucket.buffers = <<>>
             /\ ~DecompressorHealthy(bucket.compressed_data)
       THEN Fail(s, "INVALID_ARGUMENT: Invalid compressed data")
     ELSE IF bucket.read + size > DataSize(bucket.compressed_data)
       THEN Fail(s, "INVALID_ARGUMENT: Reading buffer failed")
     ELSE IF Len(bucket.buffers) + 1 = Len(bucket.buffer_sizes)
       THEN IF ~VerifyEndAndClose(bucket.compressed_data, bucket.read + size)
              THEN Fail(s1, "INVALID_ARGUMENT: Invalid compressed data")
              ELSE GetBuffer(
                     [s1 EXCEPT
                        !.buckets[bucket_index + 1].compressed_data =
                          EmptyChain,
                        !.buckets[bucket_index + 1].buffer_sizes = <<>>],
                     bucket_index, index_within_bucket)
     ELSE GetBuffer(s1, bucket_index, index_within_bucket)

NoRequest ==
  [bucket_index |-> 0 - 1, index_within_bucket |-> 0, buffers |-> 0]

\* The decoder before it parses the buckets and buffers of a chunk.
\* requested[b] is the highest index requested so far from bucket b - 1, or
\* -1; last is the last request, with the number of buffers which the bucket
\* had before it.
BKNew(projection_enabled, header, src) ==
  [healthy |-> TRUE, status |-> "OK", ret |-> TRUE, pc |-> "Parse",
   projection_enabled |-> projection_enabled, header |-> header, src |-> src,
   buckets |-> <<>>, first_buffer_indices |-> <<>>, bucket_indices |-> <<>>,
   buffers |-> <<>>, requested |-> <<>>, last |-> NoRequest]

Chains == {Chain(n, fault) : n \in BufferLengths, fault \in Faults}

SeqsUpTo(S, n) == UNION {[1 .. k -> S] : k \in 0 .. n}

BKInit ==
  \E projection_enabled \in BOOLEAN, src \in SeqsUpTo(Chains, VectorMaxSize),
     buffer_lengths \in SeqsUpTo(BufferLengths, MaxBuffers) :
    \E num_buckets \in {Len(src), Len(src) + 1, VectorMaxSize + 1},
       num_buffers \in {Len(buffer_lengths), Len(buffer_lengths) + 1,
                        VectorMaxSize + 1} :
      bk = BKNew(projection_enabled,
                 [num_buckets |-> num_buckets, num_buffers |-> num_buffers,
                  buffer_lengths |-> buffer_lengths],
                 src)

\* Parse() reads the buckets and buffers.
DoParseBuffers ==
  /\ bk.pc = "Parse"
  /\ LET Parsed(s) ==
           [s EXCEPT !.pc = IF s.ret /\ s.projection_enabled THEN "Decode"
                            ELSE "Done",
                     !.requested = [b \in 1 .. Len(s.buckets) |-> 0 - 1]]
     IN bk' = IF bk.projection_enabled
                THEN Eval(ParseBuffersForFiltering(bk), Parsed)
                ELSE Eval(ParseBuffers(bk), Parsed)
  /\ UNCHANGED <<file, recovery, rr, pw, td, lw, dec, od, sc, dw, ow, vl, dr, nc, hs, fw, io>>

\* Parse() or SetCallbackType() asks for the buffer of a node.
DoGetBuffer ==
  /\ bk.pc = "Decode"
  /\ \E bucket_index \in 0 .. (Len(bk.buckets) - 1) :
       \E index_within_bucket \in
            0 .. (bk.buckets[bucket_index + 1].num_buffers - 1) :
         LET Got(s) ==
               [s EXCEPT !.pc = IF s.ret THEN "Decode" ELSE "Done",
                         !.requested[bucket_index + 1] =
                           IF index_within_bucket > @
                             THEN index_within_bucket ELSE @,
                         !.last =
                           [bucket_index |-> bucket_index,
                            index_within_bucket |-> index_within_bucket,
                            buffers |->
                              Len(bk.buckets[bucket_index + 1].buffers)]]
         IN bk' = Eval(GetBuffer(bk, bucket_index, index_within_bucket), Got)
  /\ UNCHANGED <<file, recovery, rr, pw, td, lw, dec, od, sc, dw, ow, vl, dr, nc, hs, fw, io>>

BKNext ==
  \/ DoParseBuffers
  \/ DoGetBuffer

(***************************************************************************)
(* DigestingWriter (digesting_writer.cc).  The writer shares the buffer of *)
(* its destination: buf holds the bytes written to the buffer and not yet  *)
(* passed on.  digested lists the bytes fed to the digester, d_data the    *)
(* bytes which the destination has received.                               *)
(***************************************************************************)
\* The largest number of bytes accepted from the caller before the last
\* call.
MaxAccepted == 3

\* The arguments of Write().
Srcs == {<<1>>, <<2>>, <<1, 2>>, <<2, 1>>}

DAvailable(s) == s.buf_size - Len(s.buf)

\* Object::Fail with Writer::OnFail, which drops the buffer.
DigestingFail(s, st) ==
  [s EXCEPT !.healthy = FALSE,
            !.status = IF s.healthy THEN st ELSE s.status,
            !.buf = <<>>, !.buf_size = 0, !.ret = FALSE]

\* DigestingWriterBase::SyncBuffer: the bytes of the buffer are fed to the
\* digester, and the cursor of the destination is set after them.
DigestingSyncBuffer(s) ==
  IF Len(s.buf) > 0
    THEN [s EXCEPT !.digested = @ \o s.buf, !.d_data = @ \o s.buf,
                   !.handed = @ \o s.buf, !.d_size = @ - Len(s.buf),
                   !.buf = <<>>, !.buf_size = @ - Len(s.buf)]
    ELSE s

\* DigestingWriterBase::MakeBuffer: the buffer of the destination becomes
\* the buffer of the writer, which fails if the destination failed.
DigestingMakeBuffer(s) ==
  LET s1 == [s EXCEPT !.buf = <<>>, !.buf_size = s.d_size]
  IN IF ~s.d_healthy THEN DigestingFail(s1, "DEST_FAILED") ELSE s1

\* dest.Push(min_length, recommended_length): a buffer of k bytes, at least
\* min_length, or a failure of the destination.
DigestDestPush(s, min_length, k, dest_ok) ==
  IF ~s.d_healthy THEN [s EXCEPT !.ret = FALSE]
  ELSE IF s.d_size >= min_length THEN [s EXCEPT !.ret = TRUE]
  ELSE IF ~dest_ok
    THEN [s EXCEPT !.d_healthy = FALSE, !.d_size = 0, !.ret = FALSE]
  ELSE [s EXCEPT !.d_size = IF k < min_length THEN min_length ELSE k,
                 !.ret = TRUE]

\* dest.Write(src) and dest.WriteZeros(length): the destination receives src
\* and goes on with a buffer of k bytes, or it receives the first taken
\* bytes of src and fails.
DigestDestWrite(s, src, taken, k, dest_ok) ==
  IF ~s.d_healthy THEN [s EXCEPT !.ret = FALSE]
  ELSE IF s.d_size >= Len(src)
    THEN [s EXCEPT !.d_data = @ \o src, !.handed = @ \o src,
                   !.d_size = @ - Len(src), !.ret = TRUE]
  ELSE IF ~dest_ok
    THEN [s EXCEPT !.d_data = @ \o SubSeq(src, 1, taken),
                   !.handed = @ \o src, !.d_healthy = FALSE, !.d_size = 0,
                   !.ret = FALSE]
  ELSE [s EXCEPT !.d_data = @ \o src, !.handed = @ \o src, !.d_size = k,
                 !.ret = TRUE]

\* DigestingWriterBase::PushSlow.
DigestingPushSlow(s, min_length, k, dest_ok) ==
  IF ~s.healthy THEN [s EXCEPT !.ret = FALSE]
  ELSE LET s1 == DigestDestPush(DigestingSyncBuffer(s), min_length, k, dest_ok)
       IN [DigestingMakeBuffer(s1) EXCEPT !.ret = s1.ret]

\* A faulty WriteInternal() which does not feed the digester.
DigestingWriteInternal_NotDigested(s, src, taken, k, dest_ok) ==
  IF ~s.healthy THEN [s EXCEPT !.ret = FALSE]
  ELSE LET s1 == DigestDestWrite(DigestingSyncBuffer(s), src, taken, k, dest_ok)
       IN [DigestingMakeBuffer(s1) EXCEPT !.ret = s1.ret]

\* DigestingWriterBase::WriteInternal, and WriteZerosSlow for a src of
\* zeros.
DigestingWriteInternal(s, src, taken, k, dest_ok) ==
  IF ~s.healthy THEN [s EXCEPT !.ret = FALSE]
  ELSE LET s1 == DigestingSyncBuffer(s)
           s2 == DigestDestWrite([s1 EXCEPT !.digested = @ \o src], src,
                                 taken, k, dest_ok)
       IN [DigestingMakeBuffer(s2) EXCEPT !.ret = s2.ret]

\* Writer::Push.
DigestingPush(s, min_length, k, dest_ok) ==
  IF DAvailable(s) >= min_length THEN [s EXCEPT !.ret = TRUE]
  ELSE DigestingPushSlow(s, min_length, k, dest_ok)

\* Writer::Write(string_view) and Writer::WriteZeros: into the buffer when
\* the bytes fit.
DigestingWrite(s, src, taken, k, dest_ok) ==
  IF DAvailable(s) >= Len(src) THEN [s EXCEPT !.buf = @ \o src, !.ret = TRUE]
  ELSE DigestingWriteInternal(s, src, taken, k, dest_ok)

\* Writer::move_cursor after the caller has written src to the available
\* space.
DigestingMoveCursor(s, src) == [s EXCEPT !.buf = @ \o src, !.ret = TRUE]

\* DigestingWriterBase::Done, with Writer::Done, which drops the buffer.
DigestingDone(s) ==
  LET s1 == IF s.healthy THEN DigestingSyncBuffer(s) ELSE s
  IN [s1 EXCEPT !.buf = <<>>, !.buf_size = 0]

\* Object::Close.
DigestingClose(s) ==
  LET s1 == DigestingDone(s) IN [s1 EXCEPT !.closed = TRUE, !.ret = s1.healthy]

\* The bytes of a call which returned true are accepted.
Accepted(s, src) == IF s.ret THEN [s EXCEPT !.accepted = @ \o src] ELSE s

\* DigestingWriter(&dest) over a destination with k bytes available.
DWNew(k) ==
  [healthy |-> TRUE, status |-> "OK", ret |-> TRUE, closed |-> FALSE,
   buf |-> <<>>, buf_size |-> k, digested |-> <<>>, d_data |-> <<>>,
   d_size |-> k, d_healthy |-> TRUE, handed |-> <<>>, accepted |-> <<>>,
   dest_write_failed |-> FALSE]

DWInit == dw \in {DWNew(k) : k \in 0 .. MaxBuf}

DoDigestingPush ==
  /\ ~dw.closed /\ Len(dw.accepted) < MaxAccepted
  /\ \E min_length \in 1 .. MaxBuf, k \in 1 .. MaxBuf, dest_ok \in BOOLEAN :
       dw' = DigestingPush(dw, min_length, k, dest_ok)
  /\ UNCHANGED <<file, recovery, rr, pw, td, lw, dec, od, sc, bk, ow, vl, dr, nc, hs, fw, io>>

DoDigestingMoveCursor ==
  /\ ~dw.closed /\ Len(dw.accepted) < MaxAccepted
  /\ \E src \in Srcs :
       /\ Len(src) <= DAvailable(dw)
       /\ dw' = Accepted(DigestingMoveCursor(dw, src), src)
  /\ UNCHANGED <<file, recovery, rr, pw, td, lw, dec, od, sc, bk, ow, vl, dr, nc, hs, fw, io>>

DoDigestingWrite ==
  /\ ~dw.closed /\ Len(dw.accepted) < MaxAccepted
  /\ \E src \in Srcs, k \in 0 .. MaxBuf, dest_ok \in BOOLEAN :
       \E taken \in 0 .. Len(src) :
         LET Written(s) ==
               Accepted([s EXCEPT !.dest_write_failed =
                                    @ \/ (dw.d_healthy /\ ~s.d_healthy)],
                        src)
         IN dw' = Eval(DigestingWrite(dw, src, taken, k, dest_ok), Written)
  /\ UNCHANGED <<file, recovery, rr, pw, td, lw, dec, od, sc, bk, ow, vl, dr, nc, hs, fw, io>>

DoDigestingWriteZeros ==
  /\ ~dw.closed /\ Len(dw.accepted) < MaxAccepted
  /\ \E length \in 1 .. MaxBuf, k \in 0 .. MaxBuf, dest_ok \in BOOLEAN :
       \E taken \in 0 .. length :
         LET Written(s) ==
               Accepted([s EXCEPT !.dest_write_failed =
                                    @ \/ (dw.d_healthy /\ ~s.d_healthy)],
                        Zeros(length))
         IN dw' = Eval(DigestingWrite(dw, Zeros(length), taken, k, dest_ok),
                       Written)
  /\ UNCHANGED <<file, recovery, rr, pw, td, lw, dec, od, sc, bk, ow, vl, dr, nc, hs, fw, io>>

DoDigestingClose ==
  /\ ~dw.closed
  /\ dw' = DigestingClose(dw)
  /\ UNCHANGED <<file, recovery, rr, pw, td, lw, dec, od, sc, bk, ow, vl, dr, nc, hs, fw, io>>

DWNext ==
  \/ DoDigestingPush
  \/ DoDigestingMoveCursor
  \/ DoDigestingWrite
  \/ DoDigestingWriteZeros
  \/ DoDigestingClose

(***************************************************************************)
(* Wrappers and their dependencies at Close(): DigestingReader::Done       *)
(* (digesting_reader.h), ZstdWriter::Done (zstd_writer.h),                 *)
(* SnappyReader::Done (snappy_reader.h) and FdReader::Done (fd_reader.h).  *)
(* The dependency dep is a Reader, a Writer or a file descriptor, owned by *)
(* the wrapper or borrowed; moved counts the bytes moved through it,       *)
(* closes the calls which closed it.                                       *)
(***************************************************************************)
\* The largest number of bytes moved through a dependency before Close().
MaxMoved == 2

Wrappers == {"DigestingReader", "ZstdWriter", "SnappyReader", "FdReader"}

\* Close() of a dependency which is an Object: Done() when it is open;
\* the result is healthy().  close_ok tells whether its Done() succeeds.
DepClose(dep) ==
  IF ~dep.is_open THEN dep
  ELSE [dep EXCEPT !.is_open = FALSE, !.closes = @ + 1,
                   !.healthy = @ /\ dep.close_ok]

\* internal::CloseFd(src) of a file descriptor: the descriptor is closed
\* also when close() reports an error.
CloseFd(dep) == [dep EXCEPT !.is_open = FALSE, !.closes = @ + 1]

\* Done() of the base class: a healthy wrapper which shares the buffer of
\* its dependency passes its position on; FdReaderBase has a buffer of its
\* own.
BaseDone(s) ==
  IF s.kind # "FdReader" /\ s.healthy
    THEN [s EXCEPT !.dep.moved = @ + s.buffered, !.buffered = 0]
    ELSE [s EXCEPT !.buffered = 0]

\* A faulty Done() which closes the dependency whether it is owned or not.
WrapperDone_ClosesBorrowed(s) ==
  LET s1 == BaseDone(s)
      closed == DepClose(s1.dep)
  IN IF closed.healthy THEN [s1 EXCEPT !.dep = closed]
     ELSE Fail([s1 EXCEPT !.dep = closed], "DEPENDENCY_FAILED")

\* Done() of the wrapper: Done() of the base class, then Close() of an
\* owned dependency, whose failure fails the wrapper.
WrapperDone(s) ==
  LET s1 == BaseDone(s)
      closed == IF s.kind = "FdReader" THEN CloseFd(s1.dep)
                ELSE DepClose(s1.dep)
  IN IF ~s1.is_owning THEN s1
     ELSE IF s.kind = "FdReader"
       THEN IF ~s1.dep.close_ok /\ s1.healthy
              THEN Fail([s1 EXCEPT !.dep = closed], "close() failed")
              ELSE [s1 EXCEPT !.dep = closed]
     ELSE IF closed.healthy THEN [s1 EXCEPT !.dep = closed]
     ELSE Fail([s1 EXCEPT !.dep = closed], "DEPENDENCY_FAILED")

\* Object::Close of the wrapper.
WrapperClose(s) ==
  IF ~s.is_open THEN [s EXCEPT !.ret = s.healthy]
  ELSE LET s1 == WrapperDone([s EXCEPT !.was_dep_healthy = s.dep.healthy])
       IN [s1 EXCEPT !.is_open = FALSE, !.ret = s1.healthy]

\* A wrapper over an open dependency.
OWNew(kind, is_owning, close_ok) ==
  [kind |-> kind, is_owning |-> is_owning, healthy |-> TRUE, status |-> "OK",
   ret |-> TRUE, is_open |-> TRUE, buffered |-> 0, was_dep_healthy |-> TRUE,
   closed_twice |-> FALSE,
   dep |-> [is_open |-> TRUE, healthy |-> TRUE, close_ok |-> close_ok,
            moved |-> 0, closes |-> 0]]

OWInit ==
  ow \in {OWNew(kind, is_owning, close_ok) :
            kind \in Wrappers, is_owning \in BOOLEAN, close_ok \in BOOLEAN}

\* The wrapper reads or writes n bytes within the buffer.
DoBuffered ==
  /\ ow.is_open /\ ow.healthy
  /\ \E n \in 1 .. MaxMoved :
       /\ ow.dep.moved + ow.buffered + n <= MaxMoved
       /\ ow' = [ow EXCEPT !.buffered = @ + n, !.ret = TRUE]
  /\ UNCHANGED <<file, recovery, rr, pw, td, lw, dec, od, sc, bk, dw, vl, dr, nc, hs, fw, io>>

\* The wrapper reads from or writes to its dependency, which may fail and
\* fail the wrapper with it.
DoTransfer ==
  /\ ow.is_open /\ ow.healthy
  /\ \E dep_ok \in BOOLEAN :
       ow' = IF dep_ok
               THEN [ow EXCEPT !.dep.moved = @ + ow.buffered, !.buffered = 0,
                               !.ret = TRUE]
               ELSE Fail([ow EXCEPT !.dep.healthy = FALSE, !.buffered = 0],
                         "DEPENDENCY_FAILED")
  /\ UNCHANGED <<file, recovery, rr, pw, td, lw, dec, od, sc, bk, dw, vl, dr, nc, hs, fw, io>>

DoWrapperClose ==
  /\ ~ow.closed_twice
  /\ ow' = [WrapperClose(ow) EXCEPT !.closed_twice = ~ow.is_open]
  /\ UNCHANGED <<file, recovery, rr, pw, td, lw, dec, od, sc, bk, dw, vl, dr, nc, hs, fw, io>>

OWNext ==
  \/ DoBuffered
  \/ DoTransfer
  \/ DoWrapperClose

(***************************************************************************)
(* Varint lengths (riegeli/varint/varint_writing.h).  An unsigned integer  *)
(* of w bits is the sequence of its bits, lowest first, so that 64-bit     *)
(* values keep their width.                                                *)
(***************************************************************************)
\* 2^b, 2^b - 1 and 2^b + 1 as integers of w bits.
PowerOfTwo(w, b) == [i \in 1..w |-> IF i = b + 1 THEN 1 ELSE 0]
BelowPowerOfTwo(w, b) == [i \in 1..w |-> IF i <= b THEN 1 ELSE 0]
AbovePowerOfTwo(w, b) == [i \in 1..w |-> IF i = b + 1 \/ i = 1 THEN 1 ELSE 0]

\* The values of w bits the functions are called with: 0, all ones, and
\* the neighbours of every power of 2.
UInts(w) ==
  {PowerOfTwo(w, b) : b \in 0..(w - 1)}
    \cup {BelowPowerOfTwo(w, b) : b \in 0..w}
    \cup {AbovePowerOfTwo(w, b) : b \in 1..(w - 1)}

\* The two bodies the preprocessor chooses between.
Builds == {"builtin", "loop"}

\* a ^ b of small non-negative integers.
RECURSIVE Xor(_, _)
Xor(a, b) ==
  IF a = 0 /\ b = 0 THEN 0
  ELSE ((a + b) % 2) + 2 * Xor(a \div 2, b \div 2)

\* __builtin_clz / __builtin_clzll of a non-zero value.
CountLeadingZeros(data) ==
  Len(data) - Max({i \in 1..Len(data) : data[i] = 1})

\* __builtin_clz(data | 1) ^ __builtin_clz(1).
BuiltinFloorLog2(data) ==
  Xor(CountLeadingZeros([data EXCEPT ![1] = 1]),
      CountLeadingZeros(PowerOfTwo(Len(data), 0)))

\* A faulty division which rounds as floor_log2 / 7 does only below 2^7.
LengthOfFloorLog2_NoRounding(floor_log2) == (floor_log2 * 9 + 64) \div 64

\* (floor_log2 * 9 + 73) / 64.
LengthOfFloorLog2(floor_log2) == (floor_log2 * 9 + 73) \div 64

\* data >= 0x80 and data >> 7.
AtLeast0x80(data) == \E i \in 8..Len(data) : data[i] = 1
ShiftRight7(data) ==
  [i \in 1..Len(data) |-> IF i + 7 <= Len(data) THEN data[i + 7] ELSE 0]

\* while (data >= 0x80) { ++length; data >>= 7; }
RECURSIVE LengthLoop(_, _)
LengthLoop(data, length) ==
  IF AtLeast0x80(data) THEN LengthLoop(ShiftRight7(data), length + 1)
  ELSE length

\* LengthVarint32 and LengthVarint64, whose bodies differ in the builtin
\* only.
LengthVarint32(data, build) ==
  IF build = "builtin" THEN LengthOfFloorLog2(BuiltinFloorLog2(data))
  ELSE LengthLoop(data, 1)

LengthVarint64(data, build) ==
  IF build = "builtin" THEN LengthOfFloorLog2(BuiltinFloorLog2(data))
  ELSE LengthLoop(data, 1)

\* static_cast<char>(data | 0x80) and static_cast<char>(data) for
\* data < 0x80: the low 7 bits under the continuation bit.
VarintByte(data, continued) ==
  [i \in 1..8 |-> IF i = 8 THEN continued ELSE data[i]]

\* WriteVarint32 / WriteVarint64 to a char*: the bytes written.
RECURSIVE WriteVarint(_, _)
WriteVarint(data, dest) ==
  IF AtLeast0x80(data)
    THEN WriteVarint(ShiftRight7(data), Append(dest, VarintByte(data, 1)))
    ELSE Append(dest, VarintByte(data, 0))

\* A value about to be written, by a build.
VLNew(data, build) ==
  [op |-> "Init", data |-> data, build |-> build, length |-> 0,
   dest |-> <<>>]

VLInit == vl \in {VLNew(data, build) : data \in UInts(32) \cup UInts(64), build \in Builds}

DoLengthVarint32 ==
  /\ vl.op = "Init"
  /\ Len(vl.data) = 32
  /\ vl' = [vl EXCEPT !.op = "LengthVarint32",
                      !.length = LengthVarint32(vl.data, vl.build)]
  /\ UNCHANGED <<file, recovery, rr, pw, td, lw, dec, od, sc, bk, dw, ow, dr, nc, hs, fw, io>>

DoLengthVarint64 ==
  /\ vl.op = "Init"
  /\ Len(vl.data) = 64
  /\ vl' = [vl EXCEPT !.op = "LengthVarint64",
                      !.length = LengthVarint64(vl.data, vl.build)]
  /\ UNCHANGED <<file, recovery, rr, pw, td, lw, dec, od, sc, bk, dw, ow, dr, nc, hs, fw, io>>

\* WriteVarint32 / WriteVarint64 into the space measured by LengthVarint.
DoWriteVarint ==
  /\ vl.op \in {"LengthVarint32", "LengthVarint64"}
  /\ vl' = [vl EXCEPT !.op = "WriteVarint",
                      !.dest = WriteVarint(vl.data, <<>>)]
  /\ UNCHANGED <<file, recovery, rr, pw, td, lw, dec, od, sc, bk, dw, ow, dr, nc, hs, fw, io>>

VLNext == DoLengthVarint32 \/ DoLengthVarint64 \/ DoWriteVarint

(***************************************************************************)
(* DigestingReader (riegeli/bytes/digesting_reader.h).  The buffer of the  *)
(* reader is a part of the buffer of the source: start(), cursor() and     *)
(* limit() of both are positions in the stream, whose byte at position p   *)
(* is p + 1.                                                               *)
(***************************************************************************)
MaxStream == 4

\* DigestingReaderBase::SyncBuffer: what has been read from the buffer is
\* digested and the cursor of the source is set to the cursor of the
\* reader.  RIEGELI_ASSERT(start() == src.cursor()) is noted when it does
\* not hold.
ReaderSyncBuffer(s) ==
  [s EXCEPT !.assert_failed = @ \/ s.start # s.src_cursor,
            !.digested = @ \o Data(s.start, s.cursor - s.start),
            !.src_cursor = s.cursor]

\* DigestingReaderBase::MakeBuffer: the buffer of the source from its cursor
\* on becomes the buffer of the reader, which fails if the source failed.
ReaderMakeBuffer(s) ==
  [s EXCEPT !.start = s.src_cursor, !.cursor = s.src_cursor,
            !.limit = s.src_limit,
            !.healthy = @ /\ s.src_healthy]

\* src.Pull(min_length, recommended_length): the source makes min_length
\* bytes available after its cursor, k bytes if it can, unless the stream
\* ends before or the source fails.
ReaderSrcPull(s, min_length, k, src_ok) ==
  IF ~s.src_healthy THEN [s EXCEPT !.ret = FALSE]
  ELSE IF s.src_limit - s.src_cursor >= min_length THEN [s EXCEPT !.ret = TRUE]
  ELSE IF ~src_ok
    THEN [s EXCEPT !.src_healthy = FALSE, !.src_limit = s.src_cursor,
                   !.ret = FALSE]
  ELSE LET limit == Min({MaxStream, s.src_cursor + Max({k, min_length})})
       IN [s EXCEPT !.src_limit = Max({limit, s.src_limit}),
                    !.ret = (limit - s.src_cursor >= min_length)]

\* DigestingReaderBase::PullSlow.
ReaderPullSlow(s, min_length, k, src_ok) ==
  IF ~s.healthy THEN [s EXCEPT !.ret = FALSE]
  ELSE LET s1 == ReaderSrcPull(ReaderSyncBuffer(s), min_length, k, src_ok)
       IN [ReaderMakeBuffer(s1) EXCEPT !.ret = s1.ret]

\* Reader::Pull.
ReaderPull(s, min_length, k, src_ok) ==
  IF s.limit - s.cursor >= min_length THEN [s EXCEPT !.ret = TRUE]
  ELSE ReaderPullSlow(s, min_length, k, src_ok)

\* DigestingReader::Digest: what has been read from the buffer is digested
\* and set_buffer(cursor(), available()) moves start() to cursor().
ReaderDigest(s) ==
  IF s.cursor > s.start
    THEN [s EXCEPT !.digested = @ \o Data(s.start, s.cursor - s.start),
                   !.start = s.cursor, !.ret = TRUE]
    ELSE [s EXCEPT !.ret = TRUE]

\* DigestingReaderBase::Done, and Object::Close.
ReaderDone(s) ==
  LET s1 == IF s.healthy THEN ReaderSyncBuffer(s) ELSE s
  IN [s1 EXCEPT !.start = 0, !.cursor = 0, !.limit = 0]

ReaderClose(s) ==
  LET s1 == ReaderDone(s) IN [s1 EXCEPT !.closed = TRUE, !.ret = s1.healthy]

\* DigestingReader(&src): Initialize() over a source which has read
\* src_cursor bytes and has its buffer until src_limit.
DRNew(src_cursor, src_limit) ==
  ReaderMakeBuffer(
    [healthy |-> TRUE, closed |-> FALSE, op |-> "Init", ret |-> TRUE,
     start |-> 0, cursor |-> 0, limit |-> 0, digested |-> <<>>,
     src_cursor |-> src_cursor, src_limit |-> src_limit,
     src_healthy |-> TRUE, assert_failed |-> FALSE])

DRInit == dr \in {DRNew(c, l) : c \in {0}, l \in 0..MaxStream}

DoReaderPull ==
  /\ ~dr.closed
  /\ \E min_length \in 1..2, k \in 1..2, src_ok \in BOOLEAN :
       dr' = [ReaderPull(dr, min_length, k, src_ok) EXCEPT !.op = "Pull"]
  /\ UNCHANGED <<file, recovery, rr, pw, td, lw, dec, od, sc, bk, dw, ow, vl, nc, hs, fw, io>>

\* Reading length bytes from the buffer: move_cursor(length).
DoReaderMoveCursor ==
  /\ ~dr.closed
  /\ \E length \in 1..2 :
       /\ length <= dr.limit - dr.cursor
       /\ dr' = [dr EXCEPT !.cursor = @ + length, !.op = "move_cursor",
                           !.ret = TRUE]
  /\ UNCHANGED <<file, recovery, rr, pw, td, lw, dec, od, sc, bk, dw, ow, vl, nc, hs, fw, io>>

DoReaderDigest ==
  /\ ~dr.closed
  /\ dr' = [ReaderDigest(dr) EXCEPT !.op = "Digest"]
  /\ UNCHANGED <<file, recovery, rr, pw, td, lw, dec, od, sc, bk, dw, ow, vl, nc, hs, fw, io>>

DoReaderClose ==
  /\ ~dr.closed
  /\ dr' = [ReaderClose(dr) EXCEPT !.op = "Close"]
  /\ UNCHANGED <<file, recovery, rr, pw, td, lw, dec, od, sc, bk, dw, ow, vl, nc, hs, fw, io>>

DRNext == DoReaderPull \/ DoReaderMoveCursor \/ DoReaderDigest \/ DoReaderClose

(***************************************************************************)
(* The loops of ReadRecordImpl and SeekBack, one pass at a time, of a      *)
(* RecordReader whose recovery callback, if it has one, accepts every      *)
(* skipped region.  rr.op is "ReadRecordImpl" or "SeekBackLoop" while the  *)
(* loop runs, and rr.chunk_pos is the local chunk_pos of SeekBack.         *)
(***************************************************************************)
InLoop == rr.op \in {"ReadRecordImpl", "SeekBackLoop"}

\* RecordReaderBase::pos(), as a number: the position of the next record of
\* the current chunk or, when the chunk has none left, of the chunk reader.
ReaderPos(s) ==
  IF s.dec_index < s.dec_num THEN s.chunk_begin + s.dec_index ELSE s.src_pos

DoStepSeek ==
  /\ ~InLoop
  /\ \E c \in Boundaries, i \in 0..MaxRecs :
       rr' = Return(Seek(Call(rr, "Seek", Always), c, i))
  /\ UNCHANGED <<file, recovery, pw, td, lw, dec, od, sc, bk, dw, ow, vl, dr, nc, hs, fw, io>>

DoStepCheckFileFormat ==
  /\ ~InLoop
  /\ rr' = Return(CheckFileFormat(Call(rr, "CheckFileFormat", Always)))
  /\ UNCHANGED <<file, recovery, pw, td, lw, dec, od, sc, bk, dw, ow, vl, dr, nc, hs, fw, io>>

\* ReadRecordImpl until its loop.
DoReadRecordBegin ==
  /\ ~InLoop
  /\ rr' = [Call(rr, "ReadRecordImpl", Always) EXCEPT
              !.last_record_is_valid = FALSE]
  /\ UNCHANGED <<file, recovery, pw, td, lw, dec, od, sc, bk, dw, ow, vl, dr, nc, hs, fw, io>>

\* One pass of the loop of ReadRecordImpl.
DoReadRecordPass ==
  /\ rr.op = "ReadRecordImpl"
  /\ LET p == ReadRecordPass(rr)
     IN rr' = IF p[2] = "return" THEN Return([p[1] EXCEPT !.op = "ReadRecord"])
              ELSE p[1]
  /\ UNCHANGED <<file, recovery, pw, td, lw, dec, od, sc, bk, dw, ow, vl, dr, nc, hs, fw, io>>

\* SeekBack until its loop.
DoSeekBackBegin ==
  /\ ~InLoop
  /\ LET s == [Call(rr, "SeekBack", Always) EXCEPT
                 !.last_record_is_valid = @ /\ ~rr.healthy]
     IN rr' = IF ~s.healthy THEN Return([s EXCEPT !.ret = FALSE])
              ELSE IF s.dec_index > 0
                THEN Return([DecSetIndex(s, s.dec_index - 1) EXCEPT
                               !.ret = TRUE])
              ELSE [s EXCEPT !.op = "SeekBackLoop",
                             !.chunk_pos = s.chunk_begin]
  /\ UNCHANGED <<file, recovery, pw, td, lw, dec, od, sc, bk, dw, ow, vl, dr, nc, hs, fw, io>>

\* The test of the while loop of SeekBack, and one pass.
DoSeekBackPass ==
  /\ rr.op = "SeekBackLoop"
  /\ LET p == SeekBackPass(rr, rr.chunk_pos)
     IN rr' = IF rr.chunk_pos <= 0
                THEN Return([rr EXCEPT !.op = "SeekBack", !.ret = FALSE,
                                       !.chunk_pos = 0])
              ELSE IF p[2] = "return"
                THEN Return([p[1] EXCEPT !.op = "SeekBack", !.chunk_pos = 0])
              ELSE [p[1] EXCEPT !.chunk_pos = p[3]]
  /\ UNCHANGED <<file, recovery, pw, td, lw, dec, od, sc, bk, dw, ow, vl, dr, nc, hs, fw, io>>

RSNext ==
  \/ DoStepSeek
  \/ DoStepCheckFileFormat
  \/ DoReadRecordBegin
  \/ DoReadRecordPass
  \/ DoSeekBackBegin
  \/ DoSeekBackPass

(***************************************************************************)
(* The callback types of the nodes of a state machine over a decoding with *)
(* field projection (TransposeDecoder::Decode, kSelectCallback).  Parse()  *)
(* checks of next_node that it is a node of the table, so that the nodes   *)
(* are met in any order the chunk chooses.                                 *)
(***************************************************************************)
\* The nodes of the chunk: two fields read as varints or as submessages, and
\* the start of a submessage.
CachedNodes ==
  ([kind : {"kVarint", "kEndOfSubmessage"}, field_number : SubTags])
    \cup {[kind |-> "kStartOfSubmessage", field_number |-> 0]}

NoVisit ==
  [node |-> [kind |-> "none", field_number |-> 0], first |-> FALSE,
   callback_type |-> "none", prescribed |-> "none"]

\* One node met by the loop of Decode(): a kSelectCallback node is given its
\* callback type by SetCallbackType(), and the case of the callback type of
\* the node is executed.  last notes the node, the callback type executed
\* and the one SetCallbackType() computes at this visit.
VisitNode(s, node) ==
  LET prescribed == SetCallbackTypeOfNode(s, node.field_number, node.kind)
      first == s.callback_type[node] = "kSelectCallback"
      s1 == IF first THEN [s EXCEPT !.callback_type[node] = prescribed] ELSE s
  IN [SelectedCallback(s1, s1.callback_type[node], node.field_number)
        EXCEPT !.last = [node |-> node, first |-> first,
                         callback_type |-> s1.callback_type[node],
                         prescribed |-> prescribed]]

\* The decoding at its beginning, after Parse() of a field projection which
\* enables projection: every node with a tag is kSelectCallback.
NCNew(fields) ==
  LET Parsed(p) ==
        [healthy |-> TRUE, status |-> "OK", ret |-> p.ret, fields |-> fields,
         projection_enabled |-> p.projection_enabled,
         include_fields |-> p.include_fields, submessage_stack |-> <<>>,
         skipped_submessage_level |-> 0,
         callback_type |-> [n \in CachedNodes |-> "kSelectCallback"],
         last |-> NoVisit]
  IN Eval(IncludeFields(fields, 1, <<>>), Parsed)

NCInit == nc \in {NCNew(fields) : fields \in {f \in FieldProjections : Len(f) = 1}}

DoVisitNode ==
  /\ nc.ret /\ nc.healthy /\ nc.projection_enabled
  /\ \E node \in CachedNodes :
       /\ Len(nc.submessage_stack) + nc.skipped_submessage_level < MaxDepth
            \/ node.kind # "kEndOfSubmessage"
       /\ nc' = VisitNode(nc, node)
  /\ UNCHANGED <<file, recovery, rr, pw, td, lw, dec, od, sc, bk, dw, ow, vl, dr, hs, fw, io>>

NCNext == DoVisitNode

(***************************************************************************)
(* HadoopSnappyReader (riegeli/snappy/hadoop/hadoop_snappy_reader.cc) over *)
(* a source which holds a prefix of a HadoopSnappy stream.  A stream is a  *)
(* sequence of chunks; a chunk is the big-endian 32-bit length of its      *)
(* uncompressed data, followed by blocks; a block is the big-endian 32-bit *)
(* length of its compressed data, followed by the compressed data.         *)
(***************************************************************************)
MaxChunks == 2

\* The uncompressed lengths of the blocks of a chunk.
ChunkShapes == {<<>>, <<1>>, <<2>>, <<1, 1>>, <<0, 1>>}

HadoopStreams == UNION {[1 .. n -> ChunkShapes] : n \in 0 .. MaxChunks}

BigEndian32(v) ==
  <<(v \div 16777216) % 256, (v \div 65536) % 256, (v \div 256) % 256, v % 256>>

ReadBigEndian32(b) == b[1] * 16777216 + b[2] * 65536 + b[3] * 256 + b[4]

\* Snappy: the compressed data of a block begin with the uncompressed
\* length, which literal bytes follow.
SnappyCompress(uncompressed_length) ==
  <<uncompressed_length>> \o [i \in 1 .. uncompressed_length |-> 1]

SnappyGetUncompressedLength(compressed_data) ==
  IF Len(compressed_data) = 0 THEN [ok |-> FALSE, length |-> 0]
  ELSE [ok |-> TRUE, length |-> compressed_data[1]]

SnappyRawUncompress(compressed_data) ==
  /\ Len(compressed_data) > 0
  /\ Len(compressed_data) = 1 + compressed_data[1]

RECURSIVE SumOf(_)
SumOf(q) == IF q = <<>> THEN 0 ELSE Head(q) + SumOf(Tail(q))

RECURSIVE EncodeBlocks(_)
EncodeBlocks(shape) ==
  IF shape = <<>> THEN <<>>
  ELSE BigEndian32(Len(SnappyCompress(Head(shape))))
         \o SnappyCompress(Head(shape)) \o EncodeBlocks(Tail(shape))

EncodeChunk(shape) == BigEndian32(SumOf(shape)) \o EncodeBlocks(shape)

RECURSIVE EncodeStream(_)
EncodeStream(stream) ==
  IF stream = <<>> THEN <<>>
  ELSE EncodeChunk(Head(stream)) \o EncodeStream(Tail(stream))

\* The lengths of the prefixes of a stream which end at a chunk boundary.
ChunkBoundaries(stream) ==
  {Len(EncodeStream(SubSeq(stream, 1, j))) : j \in 0 .. Len(stream)}

\* The sources: every prefix of every stream, with where it ends.
HadoopSources ==
  UNION {{[src |-> SubSeq(EncodeStream(stream), 1, k),
           ends |-> IF k \in ChunkBoundaries(stream)
                      THEN "boundary" ELSE "middle"] :
            k \in 0 .. Len(EncodeStream(stream))} : stream \in HadoopStreams}

SrcAvailable(s) == Len(s.src) - s.src_cursor

\* Reader::Pull(min_length) of the source, which holds all of its data.
SrcPull(s, min_length) == SrcAvailable(s) >= min_length

SrcData(s, from, length) ==
  SubSeq(s.src, s.src_cursor + from + 1, s.src_cursor + from + length)

\* set_buffer(): no data in the buffer.
SetBufferEmpty(s) == [s EXCEPT !.buffer_size = 0, !.cursor = 0]

\* The loop `while (remaining_chunk_length_ == 0)` of HadoopPullBehindScratch():
\* the state, and whether HadoopPullBehindScratch() has returned.
RECURSIVE PullChunkLength(_)
PullChunkLength(s) ==
  IF s.remaining_chunk_length # 0 THEN <<s, "continue">>
  ELSE IF ~SrcPull(s, 4)
    THEN LET s1 == SetBufferEmpty(s)
         IN IF ~s1.src_healthy THEN <<Fail(s1, "SRC_FAILED"), "return">>
            ELSE IF SrcAvailable(s1) > 0
              THEN <<[s1 EXCEPT !.truncated = TRUE, !.ret = FALSE], "return">>
              ELSE <<[s1 EXCEPT !.ret = FALSE], "return">>
    ELSE PullChunkLength(
           [s EXCEPT !.remaining_chunk_length = ReadBigEndian32(SrcData(s, 0, 4)),
                     !.src_cursor = @ + 4])

\* A faulty loop which takes a source which ends before a block header for
\* truncated only if some bytes of the header are there.
RECURSIVE PullBlock_TruncatedIfAvailable(_)
PullBlock_TruncatedIfAvailable(s) ==
  IF ~SrcPull(s, 4)
    THEN LET s1 == SetBufferEmpty(s)
         IN IF ~s1.src_healthy THEN <<Fail(s1, "SRC_FAILED"), "return", 0>>
            ELSE <<[s1 EXCEPT !.truncated = SrcAvailable(s1) > 0,
                              !.ret = FALSE], "return", 0>>
  ELSE LET compressed_length == ReadBigEndian32(SrcData(s, 0, 4))
       IN IF ~SrcPull(s, 4 + compressed_length)
            THEN LET s1 == SetBufferEmpty(s)
                 IN IF ~s1.src_healthy
                      THEN <<Fail(s1, "SRC_FAILED"), "return", 0>>
                      ELSE <<[s1 EXCEPT !.truncated = TRUE, !.ret = FALSE],
                             "return", 0>>
          ELSE LET compressed_data == SrcData(s, 4, compressed_length)
                   uncompressed == SnappyGetUncompressedLength(compressed_data)
               IN IF ~uncompressed.ok
                    THEN <<Fail(SetBufferEmpty(s), "INVALID_ARGUMENT"), "return", 0>>
                  ELSE IF uncompressed.length > s.remaining_chunk_length
                    THEN <<Fail(SetBufferEmpty(s), "INVALID_ARGUMENT"), "return", 0>>
                  ELSE IF ~SnappyRawUncompress(compressed_data)
                    THEN <<Fail(SetBufferEmpty(s), "INVALID_ARGUMENT"), "return", 0>>
                  ELSE LET s2 == [s EXCEPT !.src_cursor = @ + 4 + compressed_length]
                       IN IF uncompressed.length = 0
                            THEN PullBlock_TruncatedIfAvailable(s2)
                            ELSE <<s2, "continue", uncompressed.length>>

\* The loop `do ... while (uncompressed_length == 0)` of HadoopPullBehindScratch():
\* the state, whether HadoopPullBehindScratch() has returned, and
\* uncompressed_length.
RECURSIVE PullBlock(_)
PullBlock(s) ==
  IF ~SrcPull(s, 4)
    THEN LET s1 == SetBufferEmpty(s)
         IN IF ~s1.src_healthy THEN <<Fail(s1, "SRC_FAILED"), "return", 0>>
            ELSE <<[s1 EXCEPT !.truncated = TRUE, !.ret = FALSE], "return", 0>>
  ELSE LET compressed_length == ReadBigEndian32(SrcData(s, 0, 4))
       IN IF ~SrcPull(s, 4 + compressed_length)
            THEN LET s1 == SetBufferEmpty(s)
                 IN IF ~s1.src_healthy
                      THEN <<Fail(s1, "SRC_FAILED"), "return", 0>>
                      ELSE <<[s1 EXCEPT !.truncated = TRUE, !.ret = FALSE],
                             "return", 0>>
          ELSE LET compressed_data == SrcData(s, 4, compressed_length)
                   uncompressed == SnappyGetUncompressedLength(compressed_data)
               IN IF ~uncompressed.ok
                    THEN <<Fail(SetBufferEmpty(s), "INVALID_ARGUMENT"), "return", 0>>
                  ELSE IF uncompressed.length > s.remaining_chunk_length
                    THEN <<Fail(SetBufferEmpty(s), "INVALID_ARGUMENT"), "return", 0>>
                  ELSE IF ~SnappyRawUncompress(compressed_data)
                    THEN <<Fail(SetBufferEmpty(s), "INVALID_ARGUMENT"), "return", 0>>
                  ELSE LET s2 == [s EXCEPT !.src_cursor = @ + 4 + compressed_length]
                       IN IF uncompressed.length = 0
                            THEN PullBlock(s2)
                            ELSE <<s2, "continue", uncompressed.length>>

\* HadoopSnappyReaderBase::HadoopPullBehindScratch().
HadoopPullBehindScratch(s) ==
  IF ~s.healthy THEN [s EXCEPT !.ret = FALSE]
  ELSE LET Blocks(p) ==
             IF p[2] = "return" THEN p[1]
             ELSE [p[1] EXCEPT !.remaining_chunk_length = @ - p[3],
                               !.buffer_size = p[3], !.cursor = 0,
                               !.limit_pos = @ + p[3], !.ret = TRUE]
           Lengths(p) ==
             IF p[2] = "return" THEN p[1] ELSE Eval(PullBlock(p[1]), Blocks)
       IN Eval(PullChunkLength([s EXCEPT !.truncated = FALSE]), Lengths)

HSAvailable(s) == s.buffer_size - s.cursor

\* Reader::Pull(1): PullSlow() when the buffer has no data, which is
\* HadoopPullBehindScratch() while no scratch is used.
HadoopPull(s) ==
  IF HSAvailable(s) > 0 THEN [s EXCEPT !.ret = TRUE] ELSE HadoopPullBehindScratch(s)

\* PullableReader::SeekBehindScratch(new_pos), for new_pos > limit_pos():
\* data are pulled until new_pos is in the buffer.
RECURSIVE PullableSeekBehindScratch(_, _)
PullableSeekBehindScratch(s, new_pos) ==
  LET Pulled(s1) ==
        IF ~s1.ret THEN s1
        ELSE IF new_pos > s1.limit_pos
          THEN PullableSeekBehindScratch(s1, new_pos)
          ELSE [s1 EXCEPT !.cursor = s1.buffer_size - (s1.limit_pos - new_pos)]
  IN Eval(HadoopPullBehindScratch([s EXCEPT !.cursor = s.buffer_size]), Pulled)

\* HadoopSnappyReaderBase::SeekBehindScratch(new_pos).  The source seeks
\* back to its beginning without failing.
HadoopSeekBehindScratch(s, new_pos) ==
  IF new_pos <= s.limit_pos
    THEN IF ~s.healthy THEN [s EXCEPT !.ret = FALSE]
         ELSE LET s1 == [SetBufferEmpty(s) EXCEPT
                           !.truncated = FALSE, !.remaining_chunk_length = 0,
                           !.limit_pos = 0, !.src_cursor = 0]
              IN IF new_pos = 0 THEN [s1 EXCEPT !.ret = TRUE]
                 ELSE PullableSeekBehindScratch(s1, new_pos)
    ELSE PullableSeekBehindScratch(s, new_pos)

\* Reader::Seek(new_pos): within the buffer the cursor moves, otherwise
\* SeekSlow(), which is SeekBehindScratch() while no scratch is used.
HadoopSeek(s, new_pos) ==
  IF new_pos >= s.limit_pos - s.buffer_size /\ new_pos <= s.limit_pos
    THEN [s EXCEPT !.cursor = s.buffer_size - (s.limit_pos - new_pos),
                   !.ret = TRUE]
    ELSE HadoopSeekBehindScratch(s, new_pos)

\* HadoopSnappyReaderBase::Done().
HadoopDone(s) ==
  LET s1 == IF s.truncated THEN Fail(s, "INVALID_ARGUMENT") ELSE s
  IN SetBufferEmpty(s1)

\* Object::Close().
HadoopClose(s) ==
  LET s1 == HadoopDone(s) IN [s1 EXCEPT !.closed = TRUE, !.ret = s1.healthy]

NoCall == [op |-> "Init", ret |-> TRUE, healthy |-> TRUE]

\* HadoopSnappyReader(&src) over a source at its beginning.
HSNew(source) ==
  [src |-> source.src, ends |-> source.ends, src_cursor |-> 0,
   src_healthy |-> TRUE, healthy |-> TRUE, status |-> "OK", closed |-> FALSE,
   truncated |-> FALSE, remaining_chunk_length |-> 0, buffer_size |-> 0,
   cursor |-> 0, limit_pos |-> 0, op |-> "Init", ret |-> TRUE,
   before |-> NoCall]

HSInit == hs \in {HSNew(source) : source \in HadoopSources}

\* The call which is made now, of which the next call keeps a note.
ThisCall(s) == [op |-> s.op, ret |-> s.ret, healthy |-> s.healthy]

DoHadoopPull ==
  /\ ~hs.closed
  /\ hs' = [HadoopPull(hs) EXCEPT !.op = "Pull", !.before = ThisCall(hs)]
  /\ UNCHANGED <<file, recovery, rr, pw, td, lw, dec, od, sc, bk, dw, ow, vl, dr, nc, fw, io>>

DoHadoopMoveCursor ==
  /\ ~hs.closed /\ HSAvailable(hs) > 0
  /\ \E length \in 1 .. HSAvailable(hs) :
       hs' = [hs EXCEPT !.cursor = @ + length, !.op = "move_cursor",
                        !.ret = TRUE, !.before = ThisCall(hs)]
  /\ UNCHANGED <<file, recovery, rr, pw, td, lw, dec, od, sc, bk, dw, ow, vl, dr, nc, fw, io>>

DoHadoopSeek ==
  /\ ~hs.closed
  /\ \E new_pos \in 0 .. MaxStream :
       hs' = [HadoopSeek(hs, new_pos) EXCEPT !.op = "Seek",
                                             !.before = ThisCall(hs)]
  /\ UNCHANGED <<file, recovery, rr, pw, td, lw, dec, od, sc, bk, dw, ow, vl, dr, nc, fw, io>>

DoHadoopClose ==
  /\ ~hs.closed
  /\ hs' = [HadoopClose(hs) EXCEPT !.op = "Close", !.before = ThisCall(hs)]
  /\ UNCHANGED <<file, recovery, rr, pw, td, lw, dec, od, sc, bk, dw, ow, vl, dr, nc, fw, io>>

HSNext == DoHadoopPull \/ DoHadoopMoveCursor \/ DoHadoopSeek \/ DoHadoopClose

(***************************************************************************)
(* tensorflow::FileWriter<std::unique_ptr<WritableFile>>                   *)
(* (riegeli/tensorflow/io/file_writer.h): construction, Reset() and        *)
(* Initialize().                                                            *)
(***************************************************************************)
\* The files, named by their names; "null" is the null pointer.
WritableFiles == {"a", "b", "c"}

BufferSizes == {1, 2}

\* What WritableFile::Tell() answers: a position, or a failure.
Tells == [ok : {TRUE}, pos : 0 .. MaxChunks] \cup {[ok |-> FALSE, pos |-> 0]}

\* The outcomes of Initialize() with a null pointer: the assertion fails in
\* a build with assertions, and a null pointer is dereferenced otherwise.
NullOutcomes == {"assertion_failed", "crashed"}

\* Writer::Reset(kInitiallyClosed), filename_.clear(), buffer_size_ = 0.
FileWriterBaseReset(s) ==
  [s EXCEPT !.is_open = FALSE, !.healthy = TRUE, !.status = "OK", !.pos = 0,
            !.filename = "", !.buffer_size = 0]

\* Writer::Reset(kInitiallyOpen), buffer_size_ = buffer_size.
FileWriterBaseResetOpen(s, buffer_size) ==
  [s EXCEPT !.is_open = TRUE, !.healthy = TRUE, !.status = "OK", !.pos = 0,
            !.buffer_size = buffer_size]

\* FileWriterBase::InitializeFilename(dest): filename_ is dest->Name().
InitializeFilename(s, dest) == [s EXCEPT !.filename = dest]

\* FileWriterBase::InitializePos(dest): the position is dest->Tell().
InitializePos(s, tell) ==
  IF tell.ok THEN [s EXCEPT !.pos = tell.pos]
  ELSE [s EXCEPT !.healthy = FALSE, !.status = "UNKNOWN"]

\* FileWriterBase::Initialize(dest).
FileWriterInitialize(s, dest, tell, outcome) ==
  IF dest = "null"
    THEN [s EXCEPT !.initialized_from_null = TRUE, !.outcome = outcome]
    ELSE InitializePos(InitializeFilename(s, dest), tell)

\* FileWriter::Reset().
FileWriterReset(s, outcome) ==
  LET s1 == [FileWriterBaseReset(s) EXCEPT !.dest = "null"]
  IN FileWriterInitialize(s1, s1.dest, [ok |-> FALSE, pos |-> 0], outcome)

\* FileWriter::Reset(dest, options).
FileWriterResetDest(s, dest, buffer_size, tell, outcome) ==
  LET s1 == [FileWriterBaseResetOpen(s, buffer_size) EXCEPT !.dest = dest]
  IN FileWriterInitialize(s1, s1.dest, tell, outcome)

\* FileWriter::Initialize(filename, options): OpenFile() fails the writer
\* and returns nullptr when the file cannot be opened.
FileWriterInitializeFilename(s, filename, opened, buffer_size, tell) ==
  IF ~opened
    THEN [s EXCEPT !.filename = filename, !.healthy = FALSE,
                   !.status = "UNKNOWN"]
    ELSE InitializePos(
           [FileWriterBaseResetOpen([s EXCEPT !.filename = filename],
                                    buffer_size) EXCEPT !.dest = filename],
           tell)

\* FileWriter::Reset(filename, options).
FileWriterResetFilename(s, filename, opened, buffer_size, tell, outcome) ==
  LET s1 == FileWriterReset(s, outcome)
  IN IF s1.outcome # "running" THEN s1
     ELSE FileWriterInitializeFilename(s1, filename, opened, buffer_size, tell)

\* FileWriter(): a closed FileWriter.
FWNew ==
  [is_open |-> FALSE, healthy |-> TRUE, status |-> "OK", dest |-> "null",
   filename |-> "", buffer_size |-> 0, pos |-> 0,
   initialized_from_null |-> FALSE, outcome |-> "running", op |-> "FileWriter"]

\* FileWriter(), FileWriter(dest, options) and FileWriter(filename, options).
FWInit ==
  fw \in {FWNew}
    \cup {[FileWriterInitialize(
             [FileWriterBaseResetOpen(FWNew, buffer_size) EXCEPT !.dest = dest],
             dest, tell, "running") EXCEPT !.op = "FileWriter(dest)"] :
            dest \in WritableFiles, buffer_size \in BufferSizes, tell \in Tells}
    \cup {[FileWriterInitializeFilename(FWNew, filename, opened, buffer_size,
                                        tell)
             EXCEPT !.op = "FileWriter(filename)"] :
            filename \in WritableFiles, opened \in BOOLEAN,
            buffer_size \in BufferSizes, tell \in Tells}

DoFileWriterReset ==
  /\ fw.outcome = "running"
  /\ \E outcome \in NullOutcomes :
       fw' = [FileWriterReset(fw, outcome) EXCEPT !.op = "Reset()"]
  /\ UNCHANGED <<file, recovery, rr, pw, td, lw, dec, od, sc, bk, dw, ow, vl, dr, nc, hs, io>>

DoFileWriterResetDest ==
  /\ fw.outcome = "running"
  /\ \E dest \in WritableFiles, buffer_size \in BufferSizes, tell \in Tells,
        outcome \in NullOutcomes :
       fw' = [FileWriterResetDest(fw, dest, buffer_size, tell, outcome)
                EXCEPT !.op = "Reset(dest)"]
  /\ UNCHANGED <<file, recovery, rr, pw, td, lw, dec, od, sc, bk, dw, ow, vl, dr, nc, hs, io>>

DoFileWriterResetFilename ==
  /\ fw.outcome = "running"
  /\ \E filename \in WritableFiles, opened \in BOOLEAN,
        buffer_size \in BufferSizes, tell \in Tells, outcome \in NullOutcomes :
       fw' = [FileWriterResetFilename(fw, filename, opened, buffer_size, tell,
                                      outcome)
                EXCEPT !.op = "Reset(filename)"]
  /\ UNCHANGED <<file, recovery, rr, pw, td, lw, dec, od, sc, bk, dw, ow, vl, dr, nc, hs, io>>

\* Writer::Write() of one byte by an open and healthy writer.
DoFileWriterWrite ==
  /\ fw.outcome = "running" /\ fw.is_open /\ fw.healthy /\ fw.pos < MaxStream
  /\ fw' = [fw EXCEPT !.pos = @ + 1, !.op = "Write"]
  /\ UNCHANGED <<file, recovery, rr, pw, td, lw, dec, od, sc, bk, dw, ow, vl, dr, nc, hs, io>>

\* Object::Close().
DoFileWriterClose ==
  /\ fw.outcome = "running" /\ fw.is_open
  /\ fw' = [fw EXCEPT !.is_open = FALSE, !.op = "Close"]
  /\ UNCHANGED <<file, recovery, rr, pw, td, lw, dec, od, sc, bk, dw, ow, vl, dr, nc, hs, io>>

FWNext ==
  \/ DoFileWriterReset \/ DoFileWriterResetDest \/ DoFileWriterResetFilename
  \/ DoFileWriterWrite \/ DoFileWriterClose

(***************************************************************************)
(* FdIoUringOptions (riegeli/iouring/fd_io_uring_options.h).  A uint32_t   *)
(* is the sequence of its 32 bits, lowest first.                           *)
(***************************************************************************)
\* size - 1 of a non-zero size, and size + 1 modulo 2^32.
Decrement32(size) ==
  LET lowest == Min({i \in 1..Len(size) : size[i] = 1})
  IN [i \in 1..Len(size) |->
        IF i < lowest THEN 1 ELSE IF i = lowest THEN 0 ELSE size[i]]

Increment32(size) ==
  LET zeros == {i \in 1..Len(size) : size[i] = 0}
  IN IF zeros = {} THEN [i \in 1..Len(size) |-> 0]
     ELSE [i \in 1..Len(size) |->
             IF i < Min(zeros) THEN 0 ELSE IF i = Min(zeros) THEN 1 ELSE size[i]]

\* size | (size >> shift).
OrShiftRight(size, shift) ==
  [i \in 1..Len(size) |->
     IF size[i] = 1 \/ (i + shift <= Len(size) /\ size[i + shift] = 1)
       THEN 1 ELSE 0]

\* FdIoUringOptions::RoundUpToNextPowerTwo(size).
RoundUpToNextPowerTwo(size) ==
  IF \A i \in 1..Len(size) : size[i] = 0 THEN size
  ELSE Increment32(
         OrShiftRight(OrShiftRight(OrShiftRight(OrShiftRight(OrShiftRight(
           Decrement32(size), 1), 2), 4), 8), 16))

\* FdIoUringOptions(): async_ = true, size_ = 8192, fd_register_ = false,
\* poll_io_ = false.
IONew ==
  [async |-> TRUE, size |-> PowerOfTwo(32, 13), fd_register |-> FALSE,
   poll_io |-> FALSE, op |-> "FdIoUringOptions", arg |-> PowerOfTwo(32, 13)]

IOInit == io = IONew

DoSetSize ==
  /\ \E size \in UInts(32) :
       io' = [io EXCEPT !.size = RoundUpToNextPowerTwo(size),
                        !.op = "set_size", !.arg = size]
  /\ UNCHANGED <<file, recovery, rr, pw, td, lw, dec, od, sc, bk, dw, ow, vl, dr, nc, hs, fw>>

DoSetAsync ==
  /\ \E async \in BOOLEAN : io' = [io EXCEPT !.async = async, !.op = "set_async"]
  /\ UNCHANGED <<file, recovery, rr, pw, td, lw, dec, od, sc, bk, dw, ow, vl, dr, nc, hs, fw>>

DoSetFdRegister ==
  /\ \E fd_register \in BOOLEAN :
       io' = [io EXCEPT !.fd_register = fd_register, !.op = "set_fd_register"]
  /\ UNCHANGED <<file, recovery, rr, pw, td, lw, dec, od, sc, bk, dw, ow, vl, dr, nc, hs, fw>>

DoSetPollIo ==
  /\ \E poll_io \in BOOLEAN :
       io' = [io EXCEPT !.poll_io = poll_io, !.op = "set_poll_io"]
  /\ UNCHANGED <<file, recovery, rr, pw, td, lw, dec, od, sc, bk, dw, ow, vl, dr, nc, hs, fw>>

IONext == DoSetSize \/ DoSetAsync \/ DoSetFdRegister \/ DoSetPollIo

(***************************************************************************)
(* Specifications.  Each one runs one component; the others stay in their  *)
(* initial states.                                                         *)
(***************************************************************************)
RRIdle ==
  /\ file = [c \in ChunkBegins |-> [kind |-> "ok", n |-> 0]]
  /\ recovery = FALSE
  /\ rr = RRNew

PWIdle == pw = PWNew("PushableWriter")

TDIdle ==
  td = TDNew([i \in 0 .. (NumNodes - 1) |-> 0],
             [i \in 0 .. (NumNodes - 1) |-> "kNoOp"], 0, NumNodes, NumNodes)

LWIdle == lw = LWNew(0)

DecIdle == dec = DecNew(0)

ODIdle == od = ODNew(1, 0, <<>>)

SCIdle == sc = SCNew(<<>>)

BKIdle == bk = BKNew(FALSE, [num_buckets |-> 0, num_buffers |-> 0, buffer_lengths |-> <<>>], <<>>)

DWIdle == dw = DWNew(0)

OWIdle == ow = OWNew("DigestingReader", FALSE, TRUE)

VLIdle == vl = VLNew(<<>>, "loop")

DRIdle == dr = DRNew(0, 0)

NCIdle == nc = NCNew(<<>>)

HSIdle == hs = HSNew([src |-> <<>>, ends |-> "boundary"])

FWIdle == fw = FWNew

IOIdle == io = IONew

InitRR == RRInit /\ PWIdle /\ TDIdle /\ LWIdle /\ DecIdle /\ ODIdle /\ SCIdle /\ BKIdle /\ DWIdle /\ OWIdle /\ VLIdle /\ DRIdle /\ NCIdle /\ HSIdle /\ FWIdle /\ IOIdle

SpecRR == InitRR /\ [][RRNext]_vars

InitPW == PWInit /\ RRIdle /\ TDIdle /\ LWIdle /\ DecIdle /\ ODIdle /\ SCIdle /\ BKIdle /\ DWIdle /\ OWIdle /\ VLIdle /\ DRIdle /\ NCIdle /\ HSIdle /\ FWIdle /\ IOIdle

SpecPW == InitPW /\ [][PWNext]_vars

InitTD == TDInit /\ RRIdle /\ PWIdle /\ LWIdle /\ DecIdle /\ ODIdle /\ SCIdle /\ BKIdle /\ DWIdle /\ OWIdle /\ VLIdle /\ DRIdle /\ NCIdle /\ HSIdle /\ FWIdle /\ IOIdle

SpecTD == InitTD /\ [][TDNext]_vars

InitLW == LWInit /\ RRIdle /\ PWIdle /\ TDIdle /\ DecIdle /\ ODIdle /\ SCIdle /\ BKIdle /\ DWIdle /\ OWIdle /\ VLIdle /\ DRIdle /\ NCIdle /\ HSIdle /\ FWIdle /\ IOIdle

SpecLW == InitLW /\ [][LWNext]_vars

InitDec == DecInit /\ RRIdle /\ PWIdle /\ TDIdle /\ LWIdle /\ ODIdle /\ SCIdle /\ BKIdle /\ DWIdle /\ OWIdle /\ VLIdle /\ DRIdle /\ NCIdle /\ HSIdle /\ FWIdle /\ IOIdle

SpecDec == InitDec /\ [][DecNext]_vars

InitOD == ODInit /\ RRIdle /\ PWIdle /\ TDIdle /\ LWIdle /\ DecIdle /\ SCIdle /\ BKIdle /\ DWIdle /\ OWIdle /\ VLIdle /\ DRIdle /\ NCIdle /\ HSIdle /\ FWIdle /\ IOIdle

SpecOD == InitOD /\ [][ODNext]_vars

InitSC == SCInit /\ RRIdle /\ PWIdle /\ TDIdle /\ LWIdle /\ DecIdle /\ ODIdle /\ BKIdle /\ DWIdle /\ OWIdle /\ VLIdle /\ DRIdle /\ NCIdle /\ HSIdle /\ FWIdle /\ IOIdle

SpecSC == InitSC /\ [][SCNext]_vars

InitBK == BKInit /\ RRIdle /\ PWIdle /\ TDIdle /\ LWIdle /\ DecIdle /\ ODIdle /\ SCIdle /\ DWIdle /\ OWIdle /\ VLIdle /\ DRIdle /\ NCIdle /\ HSIdle /\ FWIdle /\ IOIdle

SpecBK == InitBK /\ [][BKNext]_vars

InitDW == DWInit /\ RRIdle /\ PWIdle /\ TDIdle /\ LWIdle /\ DecIdle /\ ODIdle /\ SCIdle /\ BKIdle /\ OWIdle /\ VLIdle /\ DRIdle /\ NCIdle /\ HSIdle /\ FWIdle /\ IOIdle

SpecDW == InitDW /\ [][DWNext]_vars

InitOW == OWInit /\ RRIdle /\ PWIdle /\ TDIdle /\ LWIdle /\ DecIdle /\ ODIdle /\ SCIdle /\ BKIdle /\ DWIdle /\ VLIdle /\ DRIdle /\ NCIdle /\ HSIdle /\ FWIdle /\ IOIdle

SpecOW == InitOW /\ [][OWNext]_vars

InitVL == VLInit /\ RRIdle /\ PWIdle /\ TDIdle /\ LWIdle /\ DecIdle /\ ODIdle /\ SCIdle /\ BKIdle /\ DWIdle /\ OWIdle /\ DRIdle /\ NCIdle /\ HSIdle /\ FWIdle /\ IOIdle

SpecVL == InitVL /\ [][VLNext]_vars

InitDR == DRInit /\ RRIdle /\ PWIdle /\ TDIdle /\ LWIdle /\ DecIdle /\ ODIdle /\ SCIdle /\ BKIdle /\ DWIdle /\ OWIdle /\ VLIdle /\ NCIdle /\ HSIdle /\ FWIdle /\ IOIdle

SpecDR == InitDR /\ [][DRNext]_vars

\* Decode() is a sequential loop: an iteration which can be taken is taken.
FairSpecTD == SpecTD /\ WF_vars(TDNext)

SpecRS == InitRR /\ [][RSNext]_vars

InitNC == NCInit /\ RRIdle /\ PWIdle /\ TDIdle /\ LWIdle /\ DecIdle /\ ODIdle /\ SCIdle /\ BKIdle /\ DWIdle /\ OWIdle /\ VLIdle /\ DRIdle /\ HSIdle /\ FWIdle /\ IOIdle

SpecNC == InitNC /\ [][NCNext]_vars

InitHS == HSInit /\ RRIdle /\ PWIdle /\ TDIdle /\ LWIdle /\ DecIdle /\ ODIdle /\ SCIdle /\ BKIdle /\ DWIdle /\ OWIdle /\ VLIdle /\ DRIdle /\ NCIdle /\ FWIdle /\ IOIdle

SpecHS == InitHS /\ [][HSNext]_vars

InitFW == FWInit /\ RRIdle /\ PWIdle /\ TDIdle /\ LWIdle /\ DecIdle /\ ODIdle /\ SCIdle /\ BKIdle /\ DWIdle /\ OWIdle /\ VLIdle /\ DRIdle /\ NCIdle /\ HSIdle /\ IOIdle

SpecFW == InitFW /\ [][FWNext]_vars

InitIO == IOInit /\ RRIdle /\ PWIdle /\ TDIdle /\ LWIdle /\ DecIdle /\ ODIdle /\ SCIdle /\ BKIdle /\ DWIdle /\ OWIdle /\ VLIdle /\ DRIdle /\ NCIdle /\ HSIdle /\ FWIdle

SpecIO == InitIO /\ [][IONext]_vars

\* A loop which has not returned makes its next pass.
FairSpecRS == SpecRS /\ WF_vars(DoReadRecordPass) /\ WF_vars(DoSeekBackPass)

(***************************************************************************)
(* Properties of the record reader.                                        *)
(***************************************************************************)
\* (c, i) is the position of a record of a readable chunk: the positions
\* ReadRecord can report.
Readable(c, i) ==
  c \in ChunkBegins /\ file[c].kind = "ok" /\ i >= 0 /\ i < file[c].n

\* ReadRecord called in state s, the recovery callback following policy a.
ReadRecordFrom(s, a) == Return(ReadRecordImpl(Call(s, "ReadRecord", a)))
SeekFrom(s, a, c, i) == Return(Seek(Call(s, "Seek", a), c, i))
SeekBackFrom(s, a) == Return(SeekBack(Call(s, "SeekBack", a)))

\* C1: the position a successful ReadRecord reports, (chunk_begin_,
\* index - 1), is the position of the record it returned; and on a healthy
\* reader, in whatever state earlier reads and seeks left it, Seek to such a
\* position followed by ReadRecord succeeds and returns the bytes of the
\* record at that position again.
C1_SeekToReportedPosition ==
  /\ (rr.op = "ReadRecord" /\ rr.ret) =>
       /\ Readable(rr.chunk_begin, rr.dec_index - 1)
       /\ rr.rec = RecordAt(rr.chunk_begin, rr.dec_index - 1)
  /\ rr.healthy =>
       \A a \in AccPolicies, c \in ChunkBegins, i \in 0..MaxRecs :
         Readable(c, i) =>
           LET s1 == SeekFrom(rr, a, c, i)
               s2 == ReadRecordFrom(s1, a)
           IN s1.ret /\ s2.ret /\ s2.rec = RecordAt(c, i)

\* Witness of C1: ReadRecord has just reported a position, the reader is
\* healthy, and a record of another chunk than the current one, whose chunk
\* has to be read again, is sought and read back.
C1_Witness ==
  /\ rr.op = "ReadRecord" /\ rr.ret /\ rr.healthy
  /\ \E c \in ChunkBegins, i \in 1..MaxRecs :
       /\ Readable(c, i) /\ c # rr.chunk_begin
       /\ ReadRecordFrom(SeekFrom(rr, Always, c, i), Always).rec = RecordAt(c, i)

ReadableBefore(p) == \A c \in ChunkBegins : c < p => file[c].kind = "ok"
\* The chunks before position p which contain at least one record.
RecordChunksBefore(p) == {c \in ChunkBegins : c < p /\ file[c].n > 0}

\* C3: on a healthy reader at record index 0, with readable chunks before the
\* current one, SeekBack returns false when no earlier chunk contains a
\* record, and otherwise returns true positioned at the last record of the
\* nearest earlier chunk which contains a record, which the next ReadRecord
\* returns.
C3_SeekBackSkipsEmptyChunks ==
  (rr.healthy /\ rr.dec_index = 0 /\ ReadableBefore(rr.chunk_begin)) =>
    \A a \in AccPolicies :
      LET E == RecordChunksBefore(rr.chunk_begin)
          s1 == SeekBackFrom(rr, a)
      IN IF E = {} THEN ~s1.ret
         ELSE LET c == Max(E)
              IN /\ s1.ret /\ s1.healthy
                 /\ s1.chunk_begin = c /\ s1.dec_chunk = c
                 /\ s1.dec_index = file[c].n - 1
                 /\ ReadRecordFrom(s1, a).rec = RecordAt(c, file[c].n - 1)

\* Witness of C3: SeekBack, called on a healthy reader at index 0 of a chunk
\* or of the end of the file, has stepped over a zero-record chunk to the
\* last record of the chunk before it.
C3_Witness ==
  /\ rr.op = "SeekBack" /\ rr.ret /\ rr.healthy
  /\ rr.from = <<rr.chunk_begin + 2 * ChunkSz, 0>>
  /\ file[rr.chunk_begin + ChunkSz] = [kind |-> "ok", n |-> 0]
  /\ ReadableBefore(FileSize)
  /\ rr.dec_index = file[rr.chunk_begin].n - 1

\* The first record at or after the reader's position which can be read.
NextReadable(s) ==
  IF s.dec_index < s.dec_num THEN RecordAt(s.dec_chunk, s.dec_index)
  ELSE LET E == {c \in ChunkBegins :
                   c >= s.src_pos /\ file[c].kind = "ok" /\ file[c].n > 0}
       IN IF E = {} THEN NoRec ELSE RecordAt(Min(E), 0)

\* C4: with a recovery callback installed which accepts every skipped region,
\* ReadRecord on a reader which is healthy or has a recovery pending returns
\* the next readable record, or returns false at end of file, and leaves the
\* reader healthy in both cases.
C4_ReadRecordRecovers ==
  (recovery /\ (rr.healthy \/ rr.recoverable # "kNo")) =>
    LET s1 == ReadRecordFrom(rr, Always)
    IN /\ s1.healthy /\ s1.status = "OK"
       /\ IF NextReadable(rr) # NoRec
            THEN s1.ret /\ s1.rec = NextReadable(rr)
            ELSE ~s1.ret /\ s1.src_pos = FileSize

\* Witness of C4: ReadRecord has skipped a region, the callback accepted it,
\* and a record was returned.
C4_Witness ==
  /\ recovery /\ rr.op = "ReadRecord" /\ rr.skipped /\ ~rr.rejected
  /\ rr.ret /\ rr.healthy

\* C5 as stated: once healthy() is false no later operation makes it true.
C5_AsStated == [][~rr.healthy => ~rr'.healthy]_vars

\* C5 amended: a failed reader with no recovery pending stays failed, with
\* no recovery pending, whatever operation is called.
C5_FailedWithoutRecoveryIsTerminal ==
  [][(~rr.healthy /\ rr.recoverable = "kNo")
       => (~rr'.healthy /\ rr'.recoverable = "kNo"
           /\ rr'.status = rr.status)]_vars

\* Witness of C5: Recover was called on a failed reader with no recovery
\* pending.
C5_Witness ==
  rr.op = "Recover" /\ ~rr.healthy /\ rr.recoverable = "kNo" /\ ~rr.ret

\* C14: after Recover returns, true or false, no recovery is pending, and
\* if it returned true the reader is healthy.
C14_RecoverClearsPending ==
  rr.op = "Recover" => (rr.recoverable = "kNo" /\ (rr.ret => rr.healthy))

\* Witness of C14: Recover was called with a recovery pending and returned
\* true.
C14_Witness ==
  rr.op = "Recover" /\ rr.ret /\ rr.healthy /\ rr.recoverable = "kNo"

\* C15 as stated: a successful SetFieldProjection leaves (chunk_begin_,
\* index) as they were, and the next ReadRecord has the outcome, and returns
\* the record, it would have had without the call.
C15_AsStated ==
  rr.healthy =>
    \A a \in AccPolicies :
      LET s1 == Return(SetFieldProjection(Call(rr, "SetFieldProjection", a)))
          r0 == ReadRecordFrom(rr, a)
          r1 == ReadRecordFrom(s1, a)
      IN s1.ret =>
           /\ s1.chunk_begin = rr.chunk_begin
           /\ s1.dec_index = rr.dec_index
           /\ r1.ret = r0.ret
           /\ r1.rec = r0.rec

\* The positions of the records of the file, and the key test compares.
Records == {<<c, i>> \in ChunkBegins \X (0..(MaxRecs - 1)) : Readable(c, i)}
Key(p) == p[1] + p[2]

\* C16: on a healthy reader, over a file whose chunks are all readable or
\* with a recovery callback which accepts every skipped region, and with
\* test ordering the records by position against a range [lo, hi), Search
\* returns true and leaves the reader where the next ReadRecord returns a
\* record test finds equivalent if the file has one; otherwise the first
\* record test finds greater; otherwise nothing, at the end of the file.
C16_SearchFindsEquivalentOrFirstGreater ==
  (rr.healthy /\ (ReadableBefore(FileSize) \/ recovery)) =>
    \A lo \in Thresholds :
      \A hi \in {h \in Thresholds : h >= lo} :
        LET a == Always
            s1 == Return(Search(Call(rr, "Search", a), lo, hi))
            r1 == ReadRecordFrom(s1, a)
            eq == {p \in Records : lo <= Key(p) /\ Key(p) < hi}
            gt == {p \in Records : Key(p) >= hi}
        IN /\ s1.ret /\ s1.healthy
           /\ IF eq # {} THEN r1.ret /\ r1.rec \in eq
              ELSE IF gt # {}
                THEN r1.ret /\ r1.rec \in gt
                     /\ \A p \in gt : Key(r1.rec) <= Key(p)
              ELSE ~r1.ret /\ r1.healthy /\ r1.src_pos = FileSize

\* Witness of C16: Search has returned on a file with records in two
\* chunks, and a search from here finds an equivalent record which is not
\* the first record of its chunk, having found the first one less.
C16_Witness ==
  /\ rr.op = "Search" /\ rr.ret /\ rr.healthy /\ ReadableBefore(FileSize)
  /\ \E p \in Records :
       /\ p[2] > 0
       /\ \E q \in Records : q[1] > p[1]
       /\ ReadRecordFrom(Return(Search(Call(rr, "Search", 0), Key(p),
                                       Key(p) + 1)), 0).rec = p

C9_PushProvidesMinLength ==
  (pw.op = "Push" /\ pw.ret) => available(pw) >= pw.arg

\* Witness of C9: the implementation provided a buffer of one byte, less than
\* min_length, and Push() switched to the scratch.
C9_Witness ==
  /\ pw.kind = "PushableWriter" /\ pw.op = "Push" /\ pw.ret
  /\ pw.hooked /\ scratch_used(pw) /\ pw.orig_size = 1 /\ pw.arg > 1
  /\ available(pw) >= pw.arg

\* C10: no BehindScratch hook is invoked while the scratch is in use, and a
\* call which starts with the scratch in use and invokes a hook has written
\* the scratch out first.
C10_HooksRunBehindScratch ==
  /\ ~pw.bad_hook
  /\ (pw.was_scratch /\ pw.hooked) => pw.synced

\* Witness of C10: Flush was called with the scratch in use, wrote the
\* scratch out and then invoked FlushBehindScratch.
C10_Witness ==
  /\ pw.op = "Flush" /\ pw.was_scratch /\ pw.synced /\ pw.hooked /\ pw.ret
  /\ ~scratch_used(pw)

(***************************************************************************)
(* Properties of the TransposeDecoder state machine.                       *)
(***************************************************************************)
\* The node reached from node i by k next-node links, each taken from an
\* implicit node; NullNode when the chain ends at a node which is not
\* implicit before.
RECURSIVE ImplicitSuccessor(_, _, _)
ImplicitSuccessor(nodes, i, k) ==
  IF k = 0 THEN i
  ELSE IF ~nodes[i].implicit THEN NullNode
  ELSE ImplicitSuccessor(nodes, nodes[i].next_node, k - 1)

\* The chain of implicit transitions from node i comes back to a node
\* already visited on it: some node of the chain is reached again from itself.
ChainRevisits(nodes, i) ==
  \E k \in 0 .. VecSize, m \in 1 .. VecSize :
    /\ ImplicitSuccessor(nodes, i, k) # NullNode
    /\ ImplicitSuccessor(nodes, ImplicitSuccessor(nodes, i, k), m)
         = ImplicitSuccessor(nodes, i, k)

\* The header describes a state machine: node indices are in range.
IndicesInRange(s) ==
  /\ \A i \in 0 .. (NumNodes - 1) : s.next_node_indices[i] < 2 * NumNodes
  /\ s.first_node_index < NumNodes

\* C7: when the node indices of the header are in range and a chain of
\* implicit transitions of the state machine comes back to a node already
\* visited, Parse fails with INVALID_ARGUMENT "Nodes contain an implicit
\* loop".
C7_ImplicitLoopsRejected ==
  (/\ td.pc # "Parse" /\ IndicesInRange(td)
   /\ \E i \in 0 .. (NumNodes - 1) : ChainRevisits(td.nodes, i))
    => (/\ td.pc = "Done" /\ ~td.healthy
        /\ td.status = "INVALID_ARGUMENT: Nodes contain an implicit loop")

\* Witness of C7: a rejected state machine in which the chain from the last
\* node, itself not on a loop, runs into a loop of lower nodes.
C7_Witness ==
  /\ td.pc = "Done"
  /\ td.status = "INVALID_ARGUMENT: Nodes contain an implicit loop"
  /\ ChainRevisits(td.nodes, NumNodes - 1)
  /\ \A m \in 1 .. VecSize :
       ImplicitSuccessor(td.nodes, NumNodes - 1, m) # NumNodes - 1

\* C8: the main loop of Decode() over a state machine which passed Parse,
\* reading a finite transitions stream, ends.
C8_DecodeTerminates == (td.pc = "Loop") ~> (td.pc = "Done")

\* Witness of C8: Decode() ended after the whole transitions stream was
\* read, having left an implicit node without reading a transition byte and
\* having selected the callback of a node.
C8_Witness ==
  /\ td.pc = "Done" /\ td.healthy /\ td.transitions = MaxTransitions
  /\ td.implicit_transition
  /\ \E i \in 0 .. (NumNodes - 1) :
       td.tags[i] = "kVarint" /\ td.nodes[i].callback_type # "kSelectCallback"

\* C17: a step of the decode loop which leaves a node reads a transition
\* byte (or finds the end of the stream) exactly when that node is not
\* implicit and no extra iteration remains from the low two bits of the last
\* byte; a step which leaves an implicit node, the initial node included,
\* goes to its next node and reads no byte.
C17_ByteReadWhenNoIterationRemains ==
  [][(/\ td.pc = "Loop"
      /\ td.nodes[td.node].callback_type \in {"kNoOp", "kVarint"}
      /\ td'.status # "INVALID_ARGUMENT: Reading varint field failed")
       => LET implicit == IsImplicit(td.nodes[td.node])
              read == td'.transitions = td.transitions + 1 \/ td'.pc = "Done"
          IN /\ read <=> (~implicit /\ td.extra = 0)
             /\ implicit =>
                  /\ td'.pc = "Loop"
                  /\ td'.node = td.nodes[td.node].next_node
                  /\ td'.transitions = td.transitions
                  /\ td'.extra = td.extra]_vars

\* Witness of C17: a transition byte with low bits set led to an implicit
\* node, and the decoder has left that node without reading a byte, the
\* extra iteration still due.
C17_Witness ==
  /\ td.pc = "Loop" /\ td.implicit_transition /\ td.transitions > 0
  /\ td.extra > 0

\* C18 as stated: for every header and transitions stream, no node is stored
\* outside the node table, every node index stored or stepped to is inside
\* it, and an iteration at a node at or above state_machine_size fails the
\* decode with INVALID_ARGUMENT "Invalid node index".
C18_AsStated ==
  [][/\ ~td'.out_of_table
     /\ td'.pc \in {"Parsed", "Loop"} =>
          /\ td'.node \in 0 .. (TableSize(td'.state_machine_size) - 1)
          /\ \A i \in 0 .. (td'.state_machine_size - 1) :
               td'.nodes[i].next_node \in 0 .. (td'.state_machine_size - 1)
     /\ (td.pc = "Loop" /\ td.node >= td.state_machine_size) =>
          /\ td'.pc = "Done" /\ ~td'.healthy
          /\ td'.status = "INVALID_ARGUMENT: Invalid node index"]_vars

\* The bytes the writer holds, in the order of the stream: those taken by
\* the destination, those of the buffer saved in the scratch, those of the
\* buffer, and those of the scratch held by a BehindScratch scope.
Contents(s) ==
  s.dest \o (IF scratch_used(s) THEN s.orig_buf ELSE <<>>) \o s.buf
         \o s.scope_buf

\* C11 as stated: at every moment, within a BehindScratch scope too, pos()
\* is the number of bytes accepted.
C11_AsStated ==
  (pw.healthy /\ ~pw.crashed) => pos(pw) = Len(pw.accepted)

\* C11: on a healthy writer, outside of a BehindScratch scope pos() is the
\* number of bytes accepted, whether the scratch is in use or was drained;
\* within a scope pos() is lower by the number of bytes the scratch holds;
\* until the writer is closed the bytes held by the destination, the
\* buffers and the scratch are the accepted bytes in the order written, so
\* that after draining the destination and the buffer hold exactly those.
C11_PosCountsAcceptedBytes ==
  (pw.healthy /\ ~pw.crashed) =>
    /\ pos(pw) = Len(pw.accepted) - Len(pw.scope_buf)
    /\ ~pw.closed => Contents(pw) = pw.accepted

\* Witness of C11: a BehindScratch scope was left with bytes in the scratch
\* and a buffer saved in it, after bytes had gone to the destination.
C11_Witness ==
  /\ pw.op = "~BehindScratch" /\ pw.healthy /\ scratch_used(pw)
  /\ Len(pw.buf) > 0 /\ Len(pw.orig_buf) > 0 /\ Len(pw.dest) > 0

(***************************************************************************)
(* Properties of LimitingBackwardWriter.                                   *)
(***************************************************************************)
\* C12 as stated: a Write or WriteZeros of n bytes on a healthy writer with
\* n > size_limit - pos() fails with RESOURCE_EXHAUSTED and the position of
\* the destination stays as it was.
C12_AsStated ==
  (/\ lw.op \in {"Write", "WriteZeros"} /\ lw.was_healthy
   /\ lw.was_pos <= lw.size_limit
   /\ lw.arg > lw.size_limit - lw.was_pos)
    => (/\ ~lw.ret /\ lw.status = "RESOURCE_EXHAUSTED"
        /\ LPos(lw) = lw.was_pos
        /\ DestPos(lw) = lw.was_dest_pos)

\* C13 as stated: after every operation the position, start_pos plus the
\* bytes written, is at most size_limit.
C13_AsStated == LPos(lw) <= lw.size_limit

(***************************************************************************)
(* Properties of the submessage stack of TransposeDecoder::Decode.         *)
(***************************************************************************)
\* The value of the bytes of a varint, read as varint_reading does.
RECURSIVE ReadVarint(_)
ReadVarint(bytes) ==
  IF bytes[1] < 128 THEN bytes[1]
  ELSE (bytes[1] - 128) + 128 * ReadVarint(Tail(bytes))

\* The number of bytes of a sequence of pieces.
RECURSIVE BytesOf(_)
BytesOf(pieces) ==
  IF pieces = <<>> THEN 0 ELSE PieceSize(Head(pieces)) + BytesOf(Tail(pieces))

\* The step executes a node of callback type type.
DecStep(type) ==
  /\ dec.pc = "Loop"
  /\ dec'.callbacks = dec.callbacks + 1
  /\ dec'.op = type

\* The entries of the stack which kSubmessageEnd pushed.
PushedBySubmessageEnd ==
  {i \in 1 .. Len(dec.submessage_stack) :
     dec.submessage_stack[i].by = "kSubmessageEnd"}

\* C19 as stated: at a kSubmessageStart step the length written is the
\* position of dest minus the position recorded by the most recent
\* kSubmessageEnd whose entry is still on the stack.
C19_AsStated ==
  [][(DecStep("kSubmessageStart") /\ dec'.ret /\ PushedBySubmessageEnd # {})
       => LET i == CHOOSE j \in PushedBySubmessageEnd :
                     \A k \in PushedBySubmessageEnd : k <= j
          IN ReadVarint(Tail(dec'.dest[2])) =
               dec.dest_pos - dec.submessage_stack[i].end_of_submessage]_vars

\* C19 (amended): at a kSubmessageStart step which succeeds the length
\* written is the position of dest minus the position recorded by the entry
\* on top of the submessage stack, which the most recent kSubmessageEnd or
\* kEndProjectionGroup step not yet matched pushed; the step pops that entry
\* and dest reads, in forward order: the tag recorded in the entry, the
\* varint of the length, and then what dest held, whose first length bytes
\* are the bytes written since the entry was pushed.
C19_LengthPrefixOfTopEntry ==
  [][(DecStep("kSubmessageStart") /\ dec'.ret)
       => LET n == Len(dec.submessage_stack)
              top == dec.submessage_stack[n]
              length == dec.dest_pos - top.end_of_submessage
              body == SubSeq(dec.dest, 1, Len(dec.dest) - top.pieces)
              written == dec'.dest[2]
          IN /\ n > 0
             /\ dec'.submessage_stack = SubSeq(dec.submessage_stack, 1, n - 1)
             /\ Len(dec'.dest) = Len(dec.dest) + 2
             /\ dec'.dest[1] = <<0, top.tag_data>>
             /\ written[1] = 2
             /\ \A k \in 2 .. Len(written) :
                  (written[k] < 128) <=> (k = Len(written))
             /\ ReadVarint(Tail(written)) = length
             /\ SubSeq(dec'.dest, 3, Len(dec'.dest)) = dec.dest
             /\ BytesOf(body) = length
             /\ dec'.dest_pos = BytesOf(dec'.dest)]_vars

\* A submessage of 128 bytes made of two fields has been closed: its length
\* takes two bytes.
C19_Witness ==
  /\ dec.op = "kSubmessageStart"
  /\ dec.ret
  /\ Len(dec.dest) = 4
  /\ dec.dest[2] = <<2, 128, 1>>

\* C20: kSubmessageStart and kStartProjectionGroup at an empty submessage
\* stack, and kSkippedSubmessageStart at skipped level 0, fail the decoding
\* with INVALID_ARGUMENT and leave the stack, the level and dest alone; a
\* step removes at most the top entry of the stack, and the skipped level is
\* never negative.
C20_UnderflowFails ==
  [][(dec.pc = "Loop" /\ dec'.callbacks = dec.callbacks + 1)
       =>
       /\ (/\ dec'.op \in {"kSubmessageStart", "kStartProjectionGroup"}
           /\ dec.submessage_stack = <<>>)
            => /\ ~dec'.healthy /\ ~dec'.ret /\ dec'.pc = "Done"
               /\ dec'.status = "INVALID_ARGUMENT: Submessage stack underflow"
               /\ dec'.submessage_stack = <<>>
               /\ dec'.dest = dec.dest
       /\ (/\ dec'.op = "kSkippedSubmessageStart"
           /\ dec.skipped_submessage_level = 0)
            => /\ ~dec'.healthy /\ ~dec'.ret /\ dec'.pc = "Done"
               /\ dec'.status =
                    "INVALID_ARGUMENT: Skipped submessage stack underflow"
               /\ dec'.skipped_submessage_level = 0
       /\ Len(dec'.submessage_stack) < Len(dec.submessage_stack)
            => /\ dec.submessage_stack # <<>>
               /\ dec'.submessage_stack =
                    SubSeq(dec.submessage_stack, 1,
                           Len(dec.submessage_stack) - 1)
       /\ dec'.skipped_submessage_level >= 0
       /\ dec'.skipped_submessage_level >= dec.skipped_submessage_level - 1]_vars

\* A group was closed and opened, and a second kStartProjectionGroup found
\* the stack empty.
C20_Witness ==
  /\ dec.op = "kStartProjectionGroup"
  /\ dec.pc = "Done"
  /\ dec.status = "INVALID_ARGUMENT: Submessage stack underflow"
  /\ dec.callbacks = 3
  /\ Len(dec.dest) = 2

\* The end offset, in forward order, of the record which the j-th
\* kMessageStart closed: the bytes of the pieces written after the
\* kMessageStart before it.
EndOffset(j) ==
  BytesOf(SubSeq(dec.dest, 1,
                 Len(dec.dest) - (IF j = 1 THEN 0 ELSE dec.marks[j - 1])))

\* C21: whenever Decode returns true, limits holds num_records values in
\* non-decreasing order; the i-th is the end offset of the i-th record in
\* forward order, which is the record written i-th from last, and the last one
\* is the number of bytes decoded.
C21_LimitsAreRecordEnds ==
  (dec.op = "done" /\ dec.ret) =>
    LET n == Len(dec.limits)
    IN /\ n = dec.num_records
       /\ \A i \in 1 .. n : dec.limits[i] = EndOffset(n + 1 - i)
       /\ \A i \in 1 .. (n - 1) : dec.limits[i] <= dec.limits[i + 1]
       /\ n > 0 => dec.limits[n] = BytesOf(dec.dest)
       /\ dec.dest_pos = BytesOf(dec.dest)
       /\ n = 0 => dec.dest = <<>>

\* Three records have been decoded: in forward order an empty one, one of
\* 127 bytes and one of 1 byte.
C21_Witness ==
  /\ dec.op = "done"
  /\ dec.ret
  /\ dec.limits = <<0, 127, 128>>

(***************************************************************************)
(* Properties of TransposeDecoder::Decode as a whole.                      *)
(***************************************************************************)
\* C22: with a field projection which includes everything, Decode returns
\* true only if the bytes written by the decoding, and the bytes which
\* reached dest, are exactly decoded_data_size.
C22_DecodedSizeIsDeclaredSize ==
  (od.pc = "Done" /\ od.ret /\ IncludesAll(od.fields)) =>
    /\ od.emitted = od.decoded_data_size
    /\ DestPos(od.w) = od.decoded_data_size
    /\ od.healthy

\* Two bytes were declared and decoded in two writes.
C22_Witness ==
  /\ od.pc = "Done"
  /\ od.ret
  /\ IncludesAll(od.fields)
  /\ od.decoded_data_size = 2
  /\ od.emitted = 2
  /\ od.writes = 2

\* Some path of the field projection has kExistenceOnly before its end.
SentinelWithinPath(fields) ==
  \E j \in 1 .. Len(fields) :
    \E i \in 1 .. (Len(fields[j]) - 1) : fields[j][i] = kExistenceOnly

\* C27 as stated: when a path of the field projection has kExistenceOnly
\* before its end, Decode fails with INVALID_ARGUMENT.
C27_AsStated ==
  (/\ od.pc # "Parse"
   /\ od.num_records <= LimitsMaxSize
   /\ SentinelWithinPath(od.fields))
    => /\ od.pc = "Done"
       /\ ~od.ret
       /\ ~od.healthy
       /\ od.status \in {"INVALID_ARGUMENT: Reading header failed",
                         "INVALID_ARGUMENT: Too few records",
                         "INVALID_ARGUMENT"}

\* C28 as stated: whenever Decode returns false the decoder is failed, with
\* a status which is not OK.
C28_AsStated ==
  (od.pc = "Done" /\ ~od.ret) => (~od.healthy /\ od.status # "OK")

(***************************************************************************)
(* Properties of the field projection.                                     *)
(***************************************************************************)
\* The field numbers of a path of a projection, without a final
\* kExistenceOnly.
FieldPart(q) ==
  IF q # <<>> /\ q[Len(q)] = kExistenceOnly THEN SubSeq(q, 1, Len(q) - 1)
  ELSE q

PathsOf(fields) == {fields[j] : j \in 1 .. Len(fields)}

\* p or a prefix of p is a path of the projection.
InProjection(fields, p) ==
  \E k \in 0 .. Len(p) : SubSeq(p, 1, k) \in PathsOf(fields)

\* p is a proper prefix of the field numbers of a path of the projection.
ParentInProjection(fields, p) ==
  \E q \in PathsOf(fields) :
    /\ Len(FieldPart(q)) > Len(p)
    /\ SubSeq(FieldPart(q), 1, Len(p)) = p

\* p followed by kExistenceOnly is a path of the projection.
ExistenceInProjection(fields, p) ==
  Append(p, kExistenceOnly) \in PathsOf(fields)

Released(bucket) == bucket.compressed_data = EmptyChain

\* The number of buffers of the bucket of the last request.
LastBuffers == Len(bk.buckets[bk.last.bucket_index + 1].buffers)

\* The number of buffers which the bucket of the last request has when
\* exactly the missing buffers up to the requested one are added.
LastWanted ==
  IF bk.last.index_within_bucket + 1 > bk.last.buffers
    THEN bk.last.index_within_bucket + 1
    ELSE bk.last.buffers

TooManyDeclared ==
  bk.header.num_buckets > VectorMaxSize \/ bk.header.num_buffers > VectorMaxSize

\* The header declares one bucket, and a first buffer longer than the bucket.
FirstBufferDoesNotFit ==
  /\ bk.header.num_buckets = 1
  /\ bk.header.num_buffers \in 1 .. VectorMaxSize
  /\ Len(bk.src) >= 1
  /\ bk.src[1].fault = "none"
  /\ Len(bk.header.buffer_lengths) >= 1
  /\ bk.header.buffer_lengths[1] > bk.src[1].uncompressed_size

\* C29 as stated: too many buckets or buffers, or a buffer which does not
\* fit in its bucket, fail the decoding with RESOURCE_EXHAUSTED, with and
\* without projection.
C29_AsStated ==
  (bk.pc # "Parse" /\ (TooManyDeclared \/ FirstBufferDoesNotFit)) =>
    /\ ~bk.ret
    /\ bk.status \in {"RESOURCE_EXHAUSTED: Too many buckets",
                      "RESOURCE_EXHAUSTED: Too many buffers",
                      "RESOURCE_EXHAUSTED: Buffer does not fit in bucket",
                      "RESOURCE_EXHAUSTED: Reading buffer failed"}

(***************************************************************************)
(* Properties of DigestingWriter.                                          *)
(***************************************************************************)
IsPrefixOf(a, b) == Len(a) <= Len(b) /\ SubSeq(b, 1, Len(a)) = a

\* C25 as stated: after Close the digester has been fed exactly the bytes
\* which the destination has received, also when a write to the destination
\* failed.
C25_AsStated == dw.closed => dw.digested = dw.d_data

\* C25, amended: after Close the digester has been fed exactly the bytes
\* which were passed to the destination, each byte once and in order; the
\* destination has received a prefix of them, and all of them, which are
\* the bytes accepted from the caller, unless a write to the destination
\* failed.
C25_DigestedWhatWasPassed ==
  dw.closed =>
    /\ dw.digested = dw.handed
    /\ IsPrefixOf(dw.d_data, dw.digested)
    /\ ~dw.dest_write_failed => dw.digested = dw.d_data
    /\ dw.healthy => (dw.digested = dw.accepted /\ dw.d_data = dw.accepted)

\* Bytes written with Write() past the buffer, to the buffer and with
\* WriteZeros() have been digested and received at Close.
C25_Witness ==
  /\ dw.closed /\ dw.healthy
  /\ dw.digested = <<1, 2, 0>>
  /\ dw.d_data = <<1, 2, 0>>

(***************************************************************************)
(* Properties of the ownership of dependencies.                            *)
(***************************************************************************)
\* C26: after Close() of a wrapper its dependency is closed exactly when it
\* is owned: an owned one has been closed once, also when the wrapper had
\* failed or the closing fails, and a borrowed one is still open, has not
\* been closed and is as healthy as before.
C26_ClosedIffOwned ==
  ~ow.is_open =>
    /\ ~ow.dep.is_open <=> ow.is_owning
    /\ ow.is_owning => ow.dep.closes = 1
    /\ ~ow.is_owning =>
         /\ ow.dep.closes = 0
         /\ ow.dep.healthy = ow.was_dep_healthy
    /\ ow.ret = ow.healthy

\* A failed wrapper has closed the file descriptor which it owns, and a
\* second Close() has not closed it again.
C26_Witness ==
  /\ ow.kind = "FdReader" /\ ow.is_owning /\ ~ow.is_open /\ ~ow.healthy
  /\ ow.closed_twice
  /\ ~ow.dep.is_open /\ ow.dep.closes = 1

(***************************************************************************)
(* C30.  Seek, Size and Truncate of a writer which does not support them.  *)
(***************************************************************************)
\* The last call was a Seek, Size or Truncate made on a healthy writer, and
\* it returned.
UnsupportedCall ==
  /\ pw.op \in {"Seek", "Size", "Truncate"}
  /\ pw.was_healthy
  /\ ~pw.crashed

\* SyncScratch() of the last call failed: the write of the scratch to the
\* destination failed the writer before SeekBehindScratch(),
\* SizeBehindScratch() or TruncateBehindScratch() was reached.
SyncScratchFailed ==
  pw.was_scratch /\ pw.synced /\ pw.status = "RESOURCE_EXHAUSTED"

\* C30 as the specification states it: Seek, Size and Truncate on a writer
\* which does not support them fail with status code UNIMPLEMENTED, Size
\* returning nullopt, whether or not the scratch was in use at the call.
C30_AsStated ==
  UnsupportedCall =>
    /\ ~pw.ret
    /\ ~pw.healthy
    /\ pw.status = "UNIMPLEMENTED"
    /\ pw.op = "Size" => pw.size = nullopt

\* What the code does: the statement holds unless SyncScratch() failed; then
\* the writer has the status of the failed write, and SizeImpl() has
\* returned an optional holding 0.
C30_UnimplementedUnlessSyncFails ==
  UnsupportedCall =>
    /\ ~pw.healthy
    /\ pw.status \in {"UNIMPLEMENTED", "RESOURCE_EXHAUSTED"}
    /\ ~pw.was_scratch => pw.status = "UNIMPLEMENTED"
    /\ pw.status = "UNIMPLEMENTED" =>
         /\ ~pw.ret
         /\ pw.op = "Size" => pw.size = nullopt
    /\ pw.status = "RESOURCE_EXHAUSTED" =>
         /\ SyncScratchFailed
         /\ pw.op = "Size" => pw.size = 0 /\ pw.ret
         /\ pw.op # "Size" => ~pw.ret

\* Size() returned an optional holding 0 from a writer which it left failed.
C30_SizeOfFailedSync ==
  UnsupportedCall /\ pw.op = "Size" /\ SyncScratchFailed /\ pw.size = 0

\* An unsupported call made with the scratch in use, SyncScratch() having
\* succeeded.
C30_ScratchUsedUnimplemented ==
  UnsupportedCall /\ pw.was_scratch /\ pw.hooked
    /\ pw.status = "UNIMPLEMENTED"

(***************************************************************************)
(* C31.  The length of a varint.                                           *)
(***************************************************************************)
\* floor(log2(max(1, x))): the index of the highest bit set, 0 for x = 0.
FloorLog2OfMax1(data) ==
  Max({0} \cup {i - 1 : i \in {j \in 1..Len(data) : data[j] = 1}})

\* The length LengthVarint32 or LengthVarint64 has computed.
LengthComputed == vl.op \in {"LengthVarint32", "LengthVarint64"}

\* C31: LengthVarint32(x) and LengthVarint64(x) equal
\* floor(log2(max(1, x)) / 7) + 1 for every x, which is 1 for 0 and 127, 2
\* for 128 and 5 for 2^32 - 1, and never exceed 5 and 10 respectively.
C31_LengthVarintFormula ==
  LengthComputed =>
    /\ vl.length = FloorLog2OfMax1(vl.data) \div 7 + 1
    /\ vl.op = "LengthVarint32" => vl.length <= 5
    /\ vl.op = "LengthVarint64" => vl.length <= 10
    /\ vl.data \in {BelowPowerOfTwo(32, 0), BelowPowerOfTwo(32, 7),
                    BelowPowerOfTwo(64, 0), BelowPowerOfTwo(64, 7)}
         => vl.length = 1
    /\ vl.data \in {PowerOfTwo(32, 7), PowerOfTwo(64, 7)} => vl.length = 2
    /\ vl.data = BelowPowerOfTwo(32, 32) => vl.length = 5

\* LengthVarint32(2^32 - 1), computed with the builtin, is 5.
C31_Witness ==
  /\ vl.op = "LengthVarint32"
  /\ vl.build = "builtin"
  /\ vl.data = BelowPowerOfTwo(32, 32)
  /\ vl.length = 5

(***************************************************************************)
(* C32.  The buffer of a DigestingReader and the cursor of its source.     *)
(***************************************************************************)
\* C32 as the specification states it: while a DigestingReader is open,
\* start() equals the cursor() of the source after every operation,
\* including after Digest() when bytes of the buffer have been read.
C32_AsStated == ~dr.closed => dr.start = dr.src_cursor

\* The invariant holds after every operation until Digest() has moved
\* start(), and the assertion of SyncBuffer() fails only afterwards.
C32_HoldsUntilDigest ==
  [][(dr.start = dr.src_cursor /\ ~dr'.closed /\ dr'.op # "Digest")
       => (dr'.start = dr'.src_cursor /\ dr'.assert_failed = dr.assert_failed)]_vars

\* What has been digested is what has been read, Digest() or not.
C32_DigestedWhatWasRead ==
  /\ dr.op \in {"Digest", "Close"} /\ dr.healthy
       => dr.digested = Data(0, Len(dr.digested))
  /\ dr.op = "Digest" => Len(dr.digested) = dr.cursor

\* Digest() has been called after 1 byte of the buffer was read.
C32_DigestAfterRead ==
  dr.op = "Digest" /\ dr.cursor = 1 /\ dr.start = 1 /\ dr.src_cursor = 0

(***************************************************************************)
(* C33.  A pending recovery and the health of the RecordReader.            *)
(***************************************************************************)
\* C33: between the operations of a RecordReader, a pending recovery
\* (recoverable other than kNo) implies that the reader is not healthy.
C33_PendingRecoveryImpliesFailed ==
  rr.recoverable # "kNo" => ~rr.healthy

\* ReadMetadata has left the recovery from an invalid file metadata chunk
\* pending.
C33_Witness ==
  /\ rr.op = "ReadMetadata"
  /\ rr.metadata = "invalid"
  /\ rr.recoverable = "kRecoverChunkDecoder"
  /\ ~rr.healthy

(***************************************************************************)
(* C34.  ReadRecord with a recovery callback which accepts every region.   *)
(***************************************************************************)
\* The pass ReadRecordImpl is about to make recovers from a failure.
RecoveringPass ==
  rr.op = "ReadRecordImpl" /\ recovery /\ ReadRecordPass(rr)[2] = "recovered"

\* C34: with a recovery callback which accepts every skipped region,
\* ReadRecord on a finite file terminates, and each accepted recovery
\* strictly advances the position of the reader.
C34_ReadRecordTerminates ==
  /\ [][RecoveringPass => ReaderPos(rr') > ReaderPos(rr)]_vars
  /\ (rr.op = "ReadRecordImpl" ~> rr.op = "ReadRecord")

\* A ReadRecord has returned a record after a recovery which the callback
\* accepted.
C34_Witness ==
  /\ rr.op = "ReadRecord" /\ recovery /\ rr.skipped /\ rr.ret
  /\ rr.rec # NoRec

(***************************************************************************)
(* C35.  The search loop of SeekBack.                                      *)
(***************************************************************************)
\* C35 as the specification states it: SeekBack terminates, each pass of
\* its search loop either returning or strictly lowering the chunk position
\* it searches before.
C35_AsStated ==
  /\ [][(rr.op = "SeekBackLoop" /\ rr'.op = "SeekBackLoop")
         => rr'.chunk_pos < rr.chunk_pos]_vars
  /\ (rr.op = "SeekBackLoop" ~> rr.op = "SeekBack")

\* What the code does: SeekBack terminates; a pass never raises the chunk
\* position it searches before, and when it leaves it as it was it has
\* lowered chunk_begin_, which the next pass searches before.
C35_LoweredEverySecondPass ==
  /\ [][(rr.op = "SeekBackLoop" /\ rr'.op = "SeekBackLoop")
         => \/ rr'.chunk_pos < rr.chunk_pos
            \/ /\ rr'.chunk_pos = rr.chunk_pos
               /\ rr.chunk_begin = rr.chunk_pos
               /\ rr'.chunk_begin < rr.chunk_pos]_vars
  /\ (rr.op = "SeekBackLoop" ~> rr.op = "SeekBack")

\* A pass over a chunk with no records has left chunk_pos as it was.
C35_PassKeepsChunkPos ==
  /\ rr.op = "SeekBackLoop" /\ rr.healthy
  /\ rr.chunk_pos = 2 * ChunkSz /\ rr.chunk_begin = ChunkSz

(***************************************************************************)
(* C36.  The result of PushableWriter::SizeImpl on failure.                *)
(***************************************************************************)
\* C36 as the specification states it: PushableWriter::SizeImpl returns
\* nullopt whenever it leaves the writer failed, also when draining the
\* scratch fails.
C36_AsStated ==
  (pw.kind = "PushableWriter" /\ pw.op = "Size" /\ ~pw.healthy /\ ~pw.crashed)
    => pw.size = nullopt

\* What the code does: SizeImpl returns nullopt from a writer it leaves
\* failed unless SyncScratch() was what failed, and then it returns 0.
C36_NulloptUnlessSyncFails ==
  (pw.kind = "PushableWriter" /\ pw.op = "Size" /\ ~pw.healthy /\ ~pw.crashed)
    => /\ pw.size \in {nullopt, 0}
       /\ pw.size = 0 <=> (pw.was_healthy /\ SyncScratchFailed)

(***************************************************************************)
(* C37.  The callback type of a node which is met again.                   *)
(***************************************************************************)
\* C37 as the specification states it: the callback chosen for a
\* kSelectCallback node on its first visit is the one the projection
\* prescribes on every later visit of the node.
C37_AsStated ==
  nc.last # NoVisit => nc.last.callback_type = nc.last.prescribed

\* What the decoder does: the callback chosen on the first visit of a node
\* is the one SetCallbackType() prescribes at that visit, and it is the
\* callback of every later visit of the node, whatever submessage_stack and
\* skipped_submessage_level then prescribe.
C37_FirstVisitDecides ==
  [][\A node \in CachedNodes :
       (nc'.last.node = node /\ nc' # nc) =>
         IF nc.callback_type[node] = "kSelectCallback"
           THEN /\ nc'.last.first
                /\ nc'.last.callback_type =
                     SetCallbackTypeOfNode(nc, node.field_number, node.kind)
                /\ nc'.callback_type =
                     [nc.callback_type EXCEPT ![node] = nc'.last.callback_type]
           ELSE /\ ~nc'.last.first
                /\ nc'.last.callback_type = nc.callback_type[node]
                /\ nc'.callback_type = nc.callback_type]_vars

\* A field which was included when it was first met is met again inside a
\* skipped submessage, and is still decoded.
C37_IncludedWhileSkipped ==
  /\ nc.last.node.kind = "kVarint" /\ ~nc.last.first
  /\ nc.skipped_submessage_level > 0
  /\ nc.last.callback_type = "kVarint" /\ nc.last.prescribed = "kNoOp"

(***************************************************************************)
(* C38.  A HadoopSnappy source which ends in the middle of a chunk.        *)
(***************************************************************************)
\* The reader has been closed right after a read which returned false.
ClosedAfterFailedRead ==
  /\ hs.op = "Close"
  /\ hs.before.op \in {"Pull", "Seek"} /\ ~hs.before.ret

\* C38: when the source ends in the middle of a chunk, reading returns false
\* and leaves the reader healthy, and the Close() which follows fails with
\* INVALID_ARGUMENT; when the source ends at a chunk boundary, that Close()
\* succeeds.
C38_TruncatedFailsAtClose ==
  /\ hs.op \in {"Pull", "Seek"} /\ ~hs.ret => hs.healthy
  /\ ClosedAfterFailedRead =>
       /\ hs.before.healthy
       /\ IF hs.ends = "middle"
            THEN ~hs.ret /\ ~hs.healthy /\ hs.status = "INVALID_ARGUMENT"
            ELSE hs.ret /\ hs.healthy

\* A source which ends between two blocks of a chunk has been read to its
\* end and closed.
C38_Witness ==
  /\ ClosedAfterFailedRead /\ hs.ends = "middle"
  /\ hs.before.op = "Pull" /\ hs.limit_pos = 1
  /\ hs.src = SubSeq(EncodeChunk(<<1, 1>>), 1, 10)
  /\ hs.status = "INVALID_ARGUMENT"

(***************************************************************************)
(* C39.  FileWriterBase::Initialize() and the null pointer.                *)
(***************************************************************************)
\* C39 as the specification states it: Initialize() is never called with a
\* null WritableFile pointer, and Reset() leaves the writer closed and
\* running.
C39_AsStated ==
  /\ ~fw.initialized_from_null
  /\ fw.op = "Reset()" => ~fw.is_open /\ fw.outcome = "running"

\* What the code does: Initialize() is called with a null pointer by Reset()
\* and by Reset(filename), and by nothing else.
C39_NullOnlyFromReset ==
  /\ fw.initialized_from_null <=> fw.op \in {"Reset()", "Reset(filename)"}
  /\ fw.initialized_from_null <=> fw.outcome # "running"

(***************************************************************************)
(* C40.  set_size() rounds up to a power of two.                           *)
(***************************************************************************)
IsPowerOfTwo(size) == \E b \in 0..(Len(size) - 1) : size = PowerOfTwo(Len(size), b)

\* a >= b of two integers of the same width.
AtLeast(a, b) ==
  \/ a = b
  \/ \E i \in 1..Len(a) :
       /\ a[i] = 1 /\ b[i] = 0
       /\ \A j \in (i + 1)..Len(a) : a[j] = b[j]

\* C40 as the specification states it: after set_size(n), size() is a power
\* of two which is at least n, for every 32-bit n.
C40_AsStated ==
  io.op = "set_size" =>
    IsPowerOfTwo(io.size) /\ AtLeast(io.size, io.arg)

\* What the code does: for n from 1 to 2^31, size() is the least power of
\* two which is at least n; for n = 0 and for n above 2^31, size() is 0.
C40_RoundsUpWithinRange ==
  io.op = "set_size" =>
    IF io.arg = Zeros(32) \/ ~AtLeast(PowerOfTwo(32, 31), io.arg)
      THEN io.size = Zeros(32)
      ELSE /\ IsPowerOfTwo(io.size) /\ AtLeast(io.size, io.arg)
           /\ \A b \in 0..31 :
                AtLeast(PowerOfTwo(32, b), io.arg) =>
                  AtLeast(PowerOfTwo(32, b), io.size)

\* set_size(2^31 + 1) has left size() at 0.
C40_WrappedToZero ==
  /\ io.op = "set_size" /\ io.arg = AbovePowerOfTwo(32, 31)
  /\ io.size = Zeros(32)

====
